---- MODULE Spec2Model ----
(***************************************************************************)
(* Model of the levitate package: the transducer model parameters, the     *)
(* array control state (phases, amplitudes, complex amplitudes), the       *)
(* spatial-derivative tensors and the single-slot derivative cache         *)
(* (TransducerArray.PersistentFieldEvaluator).                             *)
(*                                                                         *)
(* Numbers.  Lengths are integers in units of 1e-9 m.  Real arithmetic of  *)
(* the code is modelled exactly (no floating-point rounding): wavenumbers   *)
(* and frequencies are rationals times a power of pi, complex numbers are   *)
(* kept in polar form with angles in units of pi / HalfTurn.                *)
(***************************************************************************)
EXTENDS Integers, Sequences, FiniteSets, TLC

VARIABLES
    num_transducers,        \* TransducerArray.num_transducers
    phases,                 \* TransducerArray.phases
    amplitudes,             \* TransducerArray.amplitudes
    _k,                     \* TransducerModel._k
    _omega,                 \* TransducerModel._omega
    c_air,                  \* models.c_air (module global)
    _last_positions,        \* PersistentFieldEvaluator._last_positions (content of the referenced array)
    _spatial_derivatives,   \* PersistentFieldEvaluator._spatial_derivatives
    _existing_orders,       \* PersistentFieldEvaluator._existing_orders
    lastOp,                 \* history: name of the last operation
    hist,                   \* history: the last (up to three) cached requests
    returned,               \* history: the value returned by the last cached request
    assigned,               \* history: the last assignment to k, omega, freq or wavelength
    arg,                    \* history: the last control-state assignment or aggregator call
    raised,                 \* history: the exception raised by the last operation
    readback,               \* history: the value returned by the last operation on the array or model
    query,                  \* inputs of a direct evaluation of the tensor functions
    result                  \* outputs of a direct evaluation of the tensor functions

vars == <<num_transducers, phases, amplitudes, _k, _omega, c_air,
          _last_positions, _spatial_derivatives, _existing_orders,
          lastOp, hist, returned, assigned, arg, raised, readback, query, result>>

arrayVars == <<num_transducers, phases, amplitudes>>
modelVars == <<_k, _omega, c_air>>
cacheVars == <<_last_positions, _spatial_derivatives, _existing_orders>>
cacheHist == <<hist, returned>>
ctrlHist  == <<arg, raised, readback>>
evalHist  == <<query, result>>

\* Python values are records tagged with their type
None == [type |-> "NoneType"]

Raise(exception) == [type |-> exception]

IsError(v) == v.type \in {"KeyError", "ValueError"}

NoException == "none"

(***************************************************************************)
(* Bounds of the model.                                                    *)
(***************************************************************************)
\* largest number of receiver points in a batched positions array
MaxPoints == 2
\* largest number of transducers of an array
MaxTransducers == 2
\* largest numerator and denominator of an assigned parameter value
MaxNum == 3
\* angles are multiples of pi / HalfTurn
HalfTurn == 2
\* largest amplitude assigned
MaxAmp == 2

(***************************************************************************)
(* Integer helpers.                                                        *)
(***************************************************************************)
Abs(x) == IF x < 0 THEN 0 - x ELSE x

RECURSIVE GCD(_, _)
GCD(a, b) == IF b = 0 THEN a ELSE GCD(b, a % b)

Last(s) == s[Len(s)]

(***************************************************************************)
(* Program constants.                                                      *)
(***************************************************************************)
\* TransducerModel.__init__: p0=6
P0 == 6
\* RectangularArray.__init__: spread=10e-3, in units of 1e-9 m
Spread == 10000000
\* np.allclose default atol=1e-8, in units of 1e-9 m
Atol == 10
\* np.allclose default rtol=1e-5, as its inverse
RtolInv == 100000
\* models.c_air = 343
CAir0 == 343
\* TransducerModel.__init__: freq=40e3
Freq0 == 40000

(***************************************************************************)
(* Ordered dictionaries: a Python dict holds its keys in insertion order,  *)
(* and one value per key.                                                  *)
(***************************************************************************)
Dict(keys, vals) == [type |-> "dict", keys |-> keys, vals |-> vals]

DictKeys(d) == {d.keys[j] : j \in 1..Len(d.keys)}

HasKey(d, key) == key \in DictKeys(d)

Lookup(d, key) == d.vals[CHOOSE j \in 1..Len(d.keys) : d.keys[j] = key]

NdArray(shape, data) == [type |-> "ndarray", shape |-> shape, data |-> data]

(***************************************************************************)
(* num_spatial_derivatives (levitate/__init__.py, not in the sources): the *)
(* number of derivative entries up to each order.                          *)
(***************************************************************************)
num_spatial_derivatives == <<1, 4, 10, 19>>

NumDerivs(orders) == num_spatial_derivatives[orders + 1]

(***************************************************************************)
(* TransducerModel.spherical_derivatives: e^{ikr}/r and its partials.  The *)
(* dict is filled order by order; an entry is the symbolic value of the    *)
(* closed form named by its key, at the given source and receiver, for     *)
(* wavenumber k.                                                           *)
(***************************************************************************)
spherical_keys(orders) ==
    <<"">>
    \o (IF orders > 0 THEN <<"x", "y", "z">> ELSE <<>>)
    \o (IF orders > 1 THEN <<"xx", "yy", "zz", "xy", "xz", "yz">> ELSE <<>>)
    \o (IF orders > 2
        THEN <<"xxx", "yyy", "zzz", "xxy", "xxz", "yyx", "yyz", "zzx", "zzy">>
        ELSE <<>>)

spherical_derivatives(source_position, receiver_position, orders, k) ==
    LET keys == spherical_keys(orders)
    IN  Dict(keys,
             [j \in 1..Len(keys) |->
                 [fn |-> "spherical", key |-> keys[j],
                  at |-> <<source_position, receiver_position, k>>]])

(***************************************************************************)
(* TransducerModel.directivity_derivatives: the table                      *)
(* finite_difference_coefficients is filled order by order, then one       *)
(* derivative is evaluated per table entry, by the stencil of that entry   *)
(* applied to self.directivity (the directivity of the model's class).     *)
(***************************************************************************)
\* variant: the third-order stencils are tabulated from order 2 on
finite_difference_keys_early(orders) ==
    <<"">>
    \o (IF orders > 0 THEN <<"x", "y", "z">> ELSE <<>>)
    \o (IF orders > 1
        THEN <<"xx", "yy", "zz", "xy", "xz", "yz",
               "xxx", "yyy", "zzz", "xxy", "xxz", "yyx", "yyz", "zzx", "zzy">>
        ELSE <<>>)

finite_difference_keys(orders) ==
    <<"">>
    \o (IF orders > 0 THEN <<"x", "y", "z">> ELSE <<>>)
    \o (IF orders > 1 THEN <<"xx", "yy", "zz", "xy", "xz", "yz">> ELSE <<>>)
    \o (IF orders > 2
        THEN <<"xxx", "yyy", "zzz", "xxy", "xxz", "yyx", "yyz", "zzx", "zzy">>
        ELSE <<>>)

TransducerModel_directivity_derivatives(kind, source_position, source_normal, receiver_position, orders, k) ==
    LET table == finite_difference_keys(orders)
    IN  Dict(table,
             [j \in 1..Len(table) |->
                 [fn |-> "stencil", key |-> table[j],
                  at |-> <<kind, source_position, source_normal, receiver_position, k>>]])

(***************************************************************************)
(* CircularRing.directivity_derivatives: closed forms from the Bessel      *)
(* recurrences, the dict filled order by order.                            *)
(***************************************************************************)
ring_keys(orders) ==
    <<"">>
    \o (IF orders > 0 THEN <<"x", "y", "z">> ELSE <<>>)
    \o (IF orders > 1 THEN <<"xx", "yy", "zz", "xy", "xz", "yz">> ELSE <<>>)
    \o (IF orders > 2
        THEN <<"xxx", "yyy", "zzz", "xxy", "xxz", "yyx", "yyz", "zzx", "zzy">>
        ELSE <<>>)

CircularRing_directivity_derivatives(source_position, source_normal, receiver_position, orders, k) ==
    LET keys == ring_keys(orders)
    IN  Dict(keys,
             [j \in 1..Len(keys) |->
                 [fn |-> "ring", key |-> keys[j],
                  at |-> <<source_position, source_normal, receiver_position, k>>]])

\* method resolution: CircularRing overrides directivity_derivatives, the
\* base model and CircularPiston use the stencil version
directivity_derivatives(kind, source_position, source_normal, receiver_position, orders, k) ==
    IF kind = "CircularRing"
    THEN CircularRing_directivity_derivatives(source_position, source_normal, receiver_position, orders, k)
    ELSE TransducerModel_directivity_derivatives(kind, source_position, source_normal, receiver_position, orders, k)

(***************************************************************************)
(* TransducerModel.spatial_derivatives: the product rule of the spherical  *)
(* tensor s and the directivity tensor d.  ProductRule(key) is the sum the *)
(* code writes for derivatives[key], as a set of <<coefficient, key of s,  *)
(* key of d>>; every entry is then multiplied by p0.  An entry of the      *)
(* result is the symbolic value of that sum: its key, the model (class, k, *)
(* p0), the source (position, normal) and the receiver positions.          *)
(***************************************************************************)
First(a) == {<<1, "", a>>, <<1, a, "">>}

Pure2(a, aa) == {<<1, "", aa>>, <<1, aa, "">>, <<2, a, a>>}

Mixed2(a, b, ab) == {<<1, "", ab>>, <<1, ab, "">>, <<1, a, b>>, <<1, b, a>>}

Pure3(a, aa, aaa) == {<<1, "", aaa>>, <<1, aaa, "">>, <<3, a, aa>>, <<3, aa, a>>}

Mixed3(a, b, aa, ab, aab) == {<<1, "", aab>>, <<1, aab, "">>, <<1, b, aa>>, <<1, aa, b>>, <<2, a, ab>>, <<2, ab, a>>}

DerivativeKeys ==
    {"", "x", "y", "z", "xx", "yy", "zz", "xy", "xz", "yz",
     "xxx", "yyy", "zzz", "xxy", "xxz", "yyx", "yyz", "zzx", "zzy"}

ProductRuleSums ==
    [key \in DerivativeKeys |->
        CASE key = ""    -> {<<1, "", "">>}
          [] key = "x"   -> First("x")
          [] key = "y"   -> First("y")
          [] key = "z"   -> First("z")
          [] key = "xx"  -> Pure2("x", "xx")
          [] key = "yy"  -> Pure2("y", "yy")
          [] key = "zz"  -> Pure2("z", "zz")
          [] key = "xy"  -> Mixed2("x", "y", "xy")
          [] key = "xz"  -> Mixed2("x", "z", "xz")
          [] key = "yz"  -> Mixed2("y", "z", "yz")
          [] key = "xxx" -> Pure3("x", "xx", "xxx")
          [] key = "yyy" -> Pure3("y", "yy", "yyy")
          [] key = "zzz" -> Pure3("z", "zz", "zzz")
          [] key = "xxy" -> Mixed3("x", "y", "xx", "xy", "xxy")
          [] key = "xxz" -> Mixed3("x", "z", "xx", "xz", "xxz")
          [] key = "yyx" -> Mixed3("y", "x", "yy", "xy", "yyx")
          [] key = "yyz" -> Mixed3("y", "z", "yy", "yz", "yyz")
          [] key = "zzx" -> Mixed3("z", "x", "zz", "xz", "zzx")
          [] key = "zzy" -> Mixed3("z", "y", "zz", "yz", "zzy")]

ProductRule(key) == ProductRuleSums[key]

spatial_keys(orders) ==
    <<"">>
    \o (IF orders > 0 THEN <<"x", "y", "z">> ELSE <<>>)
    \o (IF orders > 1 THEN <<"xx", "yy", "zz", "xy", "xz", "yz">> ELSE <<>>)
    \o (IF orders > 2
        THEN <<"xxx", "yyy", "zzz", "xxy", "xxz", "yyx", "yyz", "zzx", "zzy">>
        ELSE <<>>)

\* the keys of s and of d that the sums of the given keys read
ReadsOfS(keys) == UNION {{t[2] : t \in ProductRule(keys[j])} : j \in 1..Len(keys)}

ReadsOfD(keys) == UNION {{t[3] : t \in ProductRule(keys[j])} : j \in 1..Len(keys)}

\* model: [kind, k, p0]; the result is the dict of the method, or KeyError
\* when an entry reads a key that one of the two tensors does not hold
spatial_derivatives(model, source_position, source_normal, receiver_position, orders) ==
    LET s == spherical_derivatives(source_position, receiver_position, orders, model.k)
        d == directivity_derivatives(model.kind, source_position, source_normal, receiver_position, orders, model.k)
        keys == spatial_keys(orders)
    IN  IF ReadsOfS(keys) \subseteq DictKeys(s) /\ ReadsOfD(keys) \subseteq DictKeys(d)
        THEN Dict(keys,
                  [j \in 1..Len(keys) |->
                      [fn |-> "spatial", key |-> keys[j],
                       at |-> <<model, source_position, source_normal, receiver_position>>]])
        ELSE Raise("KeyError")

(***************************************************************************)
(* Array geometry: RectangularArray.grid_generator for shape (n, 1), the   *)
(* default normal (0, 0, 1), no rotation and no offset.                    *)
(***************************************************************************)
grid_generator(n) ==
    [positions |-> [i \in 1..n |-> <<((2 * i - n - 1) * Spread) \div 2, 0, 0>>],
     normals   |-> [i \in 1..n |-> <<0, 0, 1>>]]

(***************************************************************************)
(* The array object: geometry, model and control state.                    *)
(***************************************************************************)
ArrayOf(n, model, ph, am) ==
    [num_transducers      |-> n,
     transducer_positions |-> grid_generator(n).positions,
     transducer_normals   |-> grid_generator(n).normals,
     transducer_model     |-> model,
     phases               |-> ph,
     amplitudes           |-> am]

(***************************************************************************)
(* arrays.TransducerArray.spatial_derivatives: an ndarray of shape         *)
(* (num_spatial_derivatives[orders], N) + receiver_position.shape[:-1],    *)
(* column idx filled with the model's derivatives for transducer idx.      *)
(* Filling a column with a different number of entries raises ValueError.  *)
(***************************************************************************)
\* the loop over the transducers: the model's tensor of each, in order
RECURSIVE PerTransducer(_, _, _, _)
PerTransducer(array, receiver_position, orders, n) ==
    IF n = 0
    THEN <<>>
    ELSE Append(PerTransducer(array, receiver_position, orders, n - 1),
                spatial_derivatives(array.transducer_model,
                                    array.transducer_positions[n],
                                    array.transducer_normals[n],
                                    receiver_position, orders))

\* variant: every request computed to the highest order
TransducerArray_spatial_derivatives_speculative(array, receiver_position, orders) ==
    LET n == array.num_transducers
        col == PerTransducer(array, receiver_position, 3, n)
        rows == NumDerivs(3)
    IN  NdArray(<<rows, n>> \o SubSeq(receiver_position.shape, 1, Len(receiver_position.shape) - 1),
                [j \in 1..rows |-> [idx \in 1..n |-> col[idx].vals[j]]])

\* variant: every entry weighted by the control state of its transducer
TransducerArray_spatial_derivatives_weighted(array, receiver_position, orders) ==
    LET n == array.num_transducers
        col == PerTransducer(array, receiver_position, orders, n)
        rows == NumDerivs(orders)
    IN  NdArray(<<rows, n>> \o SubSeq(receiver_position.shape, 1, Len(receiver_position.shape) - 1),
                [j \in 1..rows |-> [idx \in 1..n |->
                    [fn |-> "weighted", by |-> <<array.amplitudes, array.phases>>, entry |-> col[idx].vals[j]]]])

\* receiver_position - source_position: the last axis of the receiver
\* positions broadcasts against the three coordinates of the source
Broadcasts(shape) == shape = <<>> \/ shape[Len(shape)] \in {1, 3}

TransducerArray_spatial_derivatives(array, receiver_position, orders) ==
    LET n == array.num_transducers
        col == PerTransducer(array, receiver_position, orders, n)
        rows == NumDerivs(orders)
    IN  IF ~Broadcasts(receiver_position.shape)
        THEN Raise("ValueError")
        ELSE IF \E idx \in 1..n : IsError(col[idx])
        THEN Raise("KeyError")
        ELSE IF \E idx \in 1..n : Len(col[idx].keys) # rows
        THEN Raise("ValueError")
        ELSE NdArray(<<rows, n>> \o SubSeq(receiver_position.shape, 1, Len(receiver_position.shape) - 1),
                     [j \in 1..rows |-> [idx \in 1..n |-> col[idx].vals[j]]])

(***************************************************************************)
(* models.TransducerArray.spatial_derivatives: a dict of arrays of shape   *)
(* (N,) or (M, N), one per key of the requested orders, entry idx copied   *)
(* from the model's dict for transducer idx.                               *)
(***************************************************************************)
models_derivative_keys(orders) ==
    <<"">>
    \o (IF orders > 0 THEN <<"x", "y", "z">> ELSE <<>>)
    \o (IF orders > 1 THEN <<"xx", "yy", "zz", "xy", "xz", "yz">> ELSE <<>>)
    \o (IF orders > 2
        THEN <<"xxx", "yyy", "zzz", "xxy", "xxz", "yyx", "yyz", "zzx", "zzy">>
        ELSE <<>>)

models_TransducerArray_spatial_derivatives(array, focus, orders) ==
    LET n == array.num_transducers
        keys == models_derivative_keys(orders)
        col == PerTransducer(array, focus, orders, n)
        shape == IF Len(focus.shape) = 1 THEN <<n>> ELSE <<focus.shape[1], n>>
    IN  IF \E idx \in 1..n : IsError(col[idx])
        THEN Raise("KeyError")
        ELSE IF \E idx \in 1..n, j \in 1..Len(keys) : ~HasKey(col[idx], keys[j])
        THEN Raise("KeyError")
        ELSE Dict(keys,
                  [j \in 1..Len(keys) |->
                      NdArray(shape, [idx \in 1..n |-> Lookup(col[idx], keys[j])])])

(***************************************************************************)
(* Exact numbers for the model parameters: [n, d, e] is (n / d) * pi^e,    *)
(* with d > 0 and n / d in lowest terms.                                   *)
(***************************************************************************)
Q(n, d, e) ==
    LET g == GCD(Abs(n), Abs(d))
        sgn == IF d < 0 THEN 0 - 1 ELSE 1
    IN  [n |-> (sgn * n) \div g, d |-> (sgn * d) \div g, e |-> e]

QMul(a, b) == Q(a.n * b.n, a.d * b.d, a.e + b.e)

QDiv(a, b) == Q(a.n * b.d, a.d * b.n, a.e - b.e)

QInt(i) == Q(i, 1, 0)

QPi == Q(1, 1, 1)

(***************************************************************************)
(* TransducerModel.k, omega, freq, wavelength: the properties over the     *)
(* stored _k and _omega.  A setter is given as the stored pair it leaves.  *)
(***************************************************************************)
k_getter == _k

\* variant: the wavenumber is replaced, the angular frequency kept
k_setter_stale(value) == [_k |-> value, _omega |-> _omega]

k_setter(value) == [_k |-> value, _omega |-> QMul(value, c_air)]

omega_getter == _omega

omega_setter(value) == [_k |-> QDiv(value, c_air), _omega |-> value]

freq_getter == QDiv(QDiv(omega_getter, QInt(2)), QPi)

freq_setter(value) == omega_setter(QMul(QMul(value, QInt(2)), QPi))

wavelength_getter == QDiv(QMul(QInt(2), QPi), k_getter)

wavelength_setter(value) == k_setter(QDiv(QMul(QInt(2), QPi), value))

ParamNames == {"k", "omega", "freq", "wavelength"}

\* setattr(model, attr, value)
Setter(attr, value) ==
    CASE attr = "k"          -> k_setter(value)
      [] attr = "omega"      -> omega_setter(value)
      [] attr = "freq"       -> freq_setter(value)
      [] attr = "wavelength" -> wavelength_setter(value)

\* the values assigned: the positive rationals n / d and their products
\* with pi, n and d up to MaxNum
ParamValues == {Q(n, d, e) : n \in 1..MaxNum, d \in 1..MaxNum, e \in 0..1}

(***************************************************************************)
(* Complex numbers, in polar form: abs >= 0 and arg in (-HalfTurn,         *)
(* HalfTurn], in units of pi / HalfTurn; zero is Complex(0, 0).  Arrays of *)
(* reals and of complex numbers carry their dtype.                         *)
(***************************************************************************)
Complex(modulus, angle) == [abs |-> modulus, arg |-> angle]

RealArray(data) == [type |-> "ndarray", dtype |-> "float64", data |-> data]

ComplexArray(data) == [type |-> "ndarray", dtype |-> "complex128", data |-> data]

\* the angle congruent to q in (-HalfTurn, HalfTurn]
Wrap(q) == ((q + HalfTurn - 1) % (2 * HalfTurn)) - HalfTurn + 1

\* np.exp(1j * phase)
exp_1j(phase) == Complex(1, Wrap(phase))

\* amplitude * c, the amplitude a real number
Times(amplitude, c) ==
    IF amplitude = 0 \/ c.abs = 0
    THEN Complex(0, 0)
    ELSE IF amplitude > 0
    THEN Complex(amplitude * c.abs, c.arg)
    ELSE Complex((0 - amplitude) * c.abs, Wrap(c.arg + HalfTurn))

np_abs(c) == c.abs

\* variant: the angle without its sign
np_angle_unsigned(c) == IF c.abs = 0 THEN {0, HalfTurn, 0 - HalfTurn} ELSE {Abs(c.arg)}

\* np.angle(c), as the set of its possible results: arctan2 of a zero is 0,
\* pi or -pi with the signs of its zero parts, which Complex(0, 0) leaves open
np_angle(c) == IF c.abs = 0 THEN {0, HalfTurn, 0 - HalfTurn} ELSE {c.arg}

\* np.iscomplex(c): the imaginary part is not zero
np_iscomplex(c) == c.abs > 0 /\ c.arg \notin {0, HalfTurn}

\* TransducerArray.complex_amplitudes, the getter:
\* self.amplitudes * np.exp(1j * self.phases), with numpy's broadcasting of
\* a length-1 operand; operands of other unequal lengths raise ValueError
complex_amplitudes_getter(am, ph) ==
    IF Len(am) = Len(ph) \/ Len(am) = 1 \/ Len(ph) = 1
    THEN ComplexArray([i \in 1..(IF Len(am) > Len(ph) THEN Len(am) ELSE Len(ph)) |->
                          Times(am[IF Len(am) = 1 THEN 1 ELSE i],
                                exp_1j(ph[IF Len(ph) = 1 THEN 1 ELSE i]))])
    ELSE Raise("ValueError")

\* TransducerArray.complex_amplitudes, the setter: the amplitudes it stores
\* and the phases it may store
complex_amplitudes_setter(value) ==
    [amplitudes |-> [i \in 1..Len(value.data) |-> np_abs(value.data[i])],
     phases     |-> {ph \in [1..Len(value.data) -> (0 - HalfTurn)..HalfTurn] :
                        \A i \in 1..Len(value.data) : ph[i] \in np_angle(value.data[i])}]

(***************************************************************************)
(* Receiver positions: an ndarray [shape, data], data being the            *)
(* coordinates in row-major order; shape is <<3>> for one point and        *)
(* <<m, 3>> for a batch of m points.                                       *)
(***************************************************************************)
RECURSIVE Flatten(_)
Flatten(ps) == IF ps = <<>> THEN <<>> ELSE ps[1] \o Flatten(Tail(ps))

SinglePoint(p) == NdArray(<<3>>, p)

Batch(ps) == NdArray(<<Len(ps), 3>>, Flatten(ps))

\* 0, 10 and 20 are pairwise within / beyond the absolute tolerance; 1999970 and
\* 2000000 are within the tolerance of np.allclose in one direction only
Points ==
    {<<x, 0, 50000000>> : x \in {0, 10, 20, 1999970, 2000000}}

\* batches of 1..MaxPoints points: the point (0, 0, 5e7) repeated, the last
\* point of the longest batch being that point or one 20e-9 m beside it
Batches ==
    {Batch([i \in 1..m |-> <<0, 0, 50000000>>]) : m \in 1..MaxPoints}
    \cup {Batch([i \in 1..MaxPoints |-> IF i = MaxPoints THEN <<20, 0, 50000000>> ELSE <<0, 0, 50000000>>])}

PositionInputs == {SinglePoint(p) : p \in Points} \cup Batches

\* the smaller input set of the specification of the request history
SlotInputs == {SinglePoint(<<x, 0, 50000000>>) : x \in {0, 20}}

Orders == 0..3

(***************************************************************************)
(* np.allclose(a, b) with the default tolerances, for arrays of equal      *)
(* shape: |a - b| <= atol + rtol * |b| for every element.  On integers     *)
(* (|a - b| - atol) / rtol <= |b| is |a - b| - atol <= |b| div (1 / rtol). *)
(***************************************************************************)
allclose(a, b) ==
    \A j \in 1..Len(a.data) :
        Abs(a.data[j] - b.data[j]) - Atol <= Abs(b.data[j]) \div RtolInv

(***************************************************************************)
(* The array and model of the current state.                               *)
(***************************************************************************)
TheModel == [kind |-> "TransducerModel", k |-> _k, p0 |-> P0]

TheArray == ArrayOf(num_transducers, TheModel, phases, amplitudes)

(***************************************************************************)
(* PersistentFieldEvaluator.spatial_derivatives: the cached wrapper.       *)
(***************************************************************************)
\* variant: a stored tensor of the requested order itself is not enough
cache_hit_higher_order(positions, orders) ==
    /\ _spatial_derivatives # None
    /\ _existing_orders > orders
    /\ positions.shape = _last_positions.shape
    /\ allclose(positions, _last_positions)

\* variant: positions of equal shape always match
cache_hit_any_values(positions, orders) ==
    /\ _spatial_derivatives # None
    /\ _existing_orders >= orders
    /\ positions.shape = _last_positions.shape

\* the condition of the early return
cache_hit(positions, orders) ==
    /\ _spatial_derivatives # None
    /\ _existing_orders >= orders
    /\ positions.shape = _last_positions.shape
    /\ allclose(positions, _last_positions)

\* what a call returns: a reference to the array object stored in
\* self._spatial_derivatives (lines 230 and 235), or nothing when it raises
StoredTensor == "self._spatial_derivatives"

Nothing == "nothing"

\* the request history keeps the last `window` requests: the arguments of
\* each, the number of calls it made to the aggregator and the positions it
\* found in the cache
Push(h, r, window) == IF Len(h) < window THEN Append(h, r) ELSE Append(Tail(h), r)

Request(positions, orders, calls) ==
    [positions |-> positions, orders |-> orders, calls |-> calls,
     found |-> _last_positions]

\* variant: the order and the positions stored before the aggregator is
\* called
cached_spatial_derivatives_stored_first(op, positions, orders, window) ==
    /\ lastOp' = op
    /\ IF cache_hit(positions, orders)
       THEN /\ UNCHANGED cacheVars
            /\ returned' = StoredTensor
            /\ raised' = NoException
            /\ hist' = Push(hist, Request(positions, orders, 0), window)
       ELSE LET computed == TransducerArray_spatial_derivatives(TheArray, positions, orders)
            IN  /\ hist' = Push(hist, Request(positions, orders, 1), window)
                /\ _existing_orders' = orders
                /\ _last_positions' = positions
                /\ IF IsError(computed)
                   THEN /\ UNCHANGED _spatial_derivatives
                        /\ returned' = Nothing
                        /\ raised' = computed.type
                   ELSE /\ _spatial_derivatives' = computed
                        /\ returned' = StoredTensor
                        /\ raised' = NoException
    /\ UNCHANGED <<arrayVars, modelVars, assigned, arg, readback, evalHist>>

\* the body of the cached wrapper, called by operation op
cached_request(op, positions, orders, window) ==
    /\ lastOp' = op
    /\ IF cache_hit(positions, orders)
       THEN /\ UNCHANGED cacheVars
            /\ returned' = StoredTensor
            /\ raised' = NoException
            /\ hist' = Push(hist, Request(positions, orders, 0), window)
       ELSE LET computed == TransducerArray_spatial_derivatives(TheArray, positions, orders)
            IN  /\ hist' = Push(hist, Request(positions, orders, 1), window)
                /\ IF IsError(computed)
                   THEN /\ UNCHANGED cacheVars
                        /\ returned' = Nothing
                        /\ raised' = computed.type
                   ELSE /\ _spatial_derivatives' = computed
                        /\ _existing_orders' = orders
                        /\ _last_positions' = positions
                        /\ returned' = StoredTensor
                        /\ raised' = NoException

\* one call of the cached wrapper by operation op
cached_spatial_derivatives(op, positions, orders, window) ==
    /\ cached_request(op, positions, orders, window)
    /\ UNCHANGED <<arrayVars, modelVars, assigned, arg, readback, evalHist>>

\* The positions argument is an array object with content v.  Passing the
\* very object the cache holds in _last_positions and passing another object
\* of equal content are the same request: the wrapper reads the content only.
CallSpatialDerivatives(inputs, window) ==
    \E v \in inputs, orders \in Orders :
        cached_spatial_derivatives("spatial_derivatives", v, orders, window)

pressure(inputs, window) ==
    \E v \in inputs : cached_spatial_derivatives("pressure", v, 0, window)

velocity(inputs, window) ==
    \E v \in inputs : cached_spatial_derivatives("velocity", v, 1, window)

force(inputs, window) ==
    \E v \in inputs : cached_spatial_derivatives("force", v, 2, window)

\* variant: the stiffness read from the second derivatives
stiffness_of_second_order(inputs, window) ==
    \E v \in inputs : cached_spatial_derivatives("stiffness", v, 2, window)

stiffness(inputs, window) ==
    \E v \in inputs : cached_spatial_derivatives("stiffness", v, 3, window)

\* the caller writes new coordinates into the array object it passed to the
\* last computed request: numpy arrays are mutable and the cache keeps the
\* reference to the caller's object (line 234), so the content of
\* _last_positions changes with it
MutateInPlace(inputs) ==
    /\ _last_positions # None
    /\ \E v \in inputs :
        /\ v.shape = _last_positions.shape
        /\ v # _last_positions
        /\ _last_positions' = v
    /\ lastOp' = "mutate"
    /\ UNCHANGED <<_spatial_derivatives, _existing_orders, arrayVars, modelVars,
                   cacheHist, assigned, ctrlHist, evalHist>>

(***************************************************************************)
(* Construction: TransducerModel(freq=40e3), TransducerArray.__init__ and  *)
(* PersistentFieldEvaluator.__init__.                                      *)
(***************************************************************************)
InitModel ==
    /\ c_air = QInt(CAir0)
    /\ _omega = freq_setter(QInt(Freq0))._omega
    /\ _k = freq_setter(QInt(Freq0))._k

InitArray(n) ==
    /\ num_transducers = n
    /\ amplitudes = [i \in 1..n |-> 1]
    /\ phases = [i \in 1..n |-> 0]

InitEvaluator ==
    /\ _last_positions = None
    /\ _spatial_derivatives = None
    /\ _existing_orders = 0 - 1

InitHistory ==
    /\ lastOp = "init"
    /\ hist = <<>>
    /\ returned = Nothing
    /\ assigned = None
    /\ arg = None
    /\ raised = NoException
    /\ readback = None
    /\ query = None
    /\ result = None

Init ==
    /\ InitModel
    /\ InitArray(MaxTransducers)
    /\ InitEvaluator
    /\ InitHistory

\* the cached evaluator, called with any positions and orders
Next ==
    \/ CallSpatialDerivatives(PositionInputs, 1)
    \/ pressure(PositionInputs, 1)
    \/ velocity(PositionInputs, 1)
    \/ force(PositionInputs, 1)
    \/ stiffness(PositionInputs, 1)
    \/ MutateInPlace(PositionInputs)

Spec == Init /\ [][Next]_vars

\* the cached evaluator with the history of the last three requests
NextSlot ==
    \/ CallSpatialDerivatives(SlotInputs, 3)
    \/ MutateInPlace(SlotInputs)

SpecSlot == Init /\ [][NextSlot]_vars

(***************************************************************************)
(* Assignments to and reads of the model parameters.                       *)
(***************************************************************************)
Assign(via, attr, value) ==
    /\ _k' = Setter(attr, value)._k
    /\ _omega' = Setter(attr, value)._omega
    /\ assigned' = [attr |-> attr, value |-> value, via |-> via]
    /\ lastOp' = "assign"
    /\ readback' = None
    /\ raised' = NoException
    /\ UNCHANGED <<c_air, arrayVars, cacheVars, cacheHist, arg, evalHist>>

\* model.k = value, model.omega = value, ...
ModelAssign == \E attr \in ParamNames, value \in ParamValues : Assign("model", attr, value)

\* array.k = value, ...: the array's properties delegate to transducer_model
ArrayAssign == \E attr \in ParamNames, value \in ParamValues : Assign("array", attr, value)

\* reading the four properties, of the model or through the array
ReadParameters ==
    /\ readback' = [k |-> k_getter, omega |-> omega_getter,
                    freq |-> freq_getter, wavelength |-> wavelength_getter]
    /\ lastOp' = "read_parameters"
    /\ raised' = NoException
    /\ UNCHANGED <<modelVars, arrayVars, cacheVars, cacheHist, assigned, arg, evalHist>>

NextParams ==
    \/ ModelAssign
    \/ ArrayAssign
    \/ ReadParameters

SpecParams == Init /\ [][NextParams]_vars

\* C6: after any assignments to k, omega, freq or wavelength, on the model
\* or through the array, omega = k * c_air, freq = omega / (2 pi) and
\* wavelength = 2 pi / k, and the assigned property reads as the value
\* assigned.
C6_Consistent ==
    /\ _omega = QMul(_k, c_air)
    /\ lastOp = "read_parameters" =>
          /\ readback.omega = QMul(readback.k, c_air)
          /\ readback.freq = QDiv(readback.omega, QMul(QInt(2), QPi))
          /\ readback.wavelength = QDiv(QMul(QInt(2), QPi), readback.k)
          /\ assigned # None => readback[assigned.attr] = assigned.value

\* the wavelength was assigned through the array and the four values read
C6_Witness ==
    /\ lastOp = "read_parameters"
    /\ assigned # None
    /\ assigned.attr = "wavelength"
    /\ assigned.via = "array"
    /\ assigned.value = Q(2, 3, 0)
    /\ readback.k = Q(3, 1, 1)
    /\ readback.omega = Q(3 * CAir0, 1, 1)

(***************************************************************************)
(* The control state of an array: assignments to phases, amplitudes,       *)
(* complex_amplitudes and (models.TransducerArray) phases_amplitudes, reads *)
(* of complex_amplitudes, and calls of the aggregators.  phases and         *)
(* amplitudes are plain attributes: an assignment binds the given array.    *)
(***************************************************************************)
\* phases assigned: -pi, 0, pi / HalfTurn and pi + pi / HalfTurn
PhaseValues == <<0 - HalfTurn, 0, 1, HalfTurn + 1>>

\* amplitudes assigned: a negative one, zero and the largest
AmplitudeValues == <<0 - 1, 0, MaxAmp>>

\* c = a * exp(1j * phi), a >= 0 and phi in (-pi, pi]: zero, and the numbers
\* of modulus MaxAmp at every angle
ComplexValues ==
    [j \in 1..(2 * HalfTurn + 1) |->
        IF j = 1 THEN Times(0, exp_1j(0)) ELSE Times(MaxAmp, exp_1j(j - 1 - HalfTurn))]

\* the array of n values taken in turn from the values, starting at the k-th
Cycle(values, n, k) == [i \in 1..n |-> values[((k + i - 2) % Len(values)) + 1]]

WrongLengths(n) == {n - 1, n + 1} \ {0}

\* real arrays of n values, and the arrays of zeros and of ones of the
\* neighbouring lengths
RealInputs(values, n) ==
    {RealArray(Cycle(values, n, k)) : k \in 1..Len(values)}
    \cup {RealArray([i \in 1..m |-> v]) : m \in WrongLengths(n), v \in {0, 1}}

ComplexInputs(n) ==
    {ComplexArray(Cycle(ComplexValues, n, k)) : k \in 1..Len(ComplexValues)}
    \cup {ComplexArray([i \in 1..m |-> Times(MaxAmp, exp_1j(1))]) : m \in WrongLengths(n)}

\* values given to phases_amplitudes: reals of length 2n (phases, then
\* amplitudes), n and 2n + 1, and complex arrays of length n with non-real
\* elements
LegacyRealInputs(n) ==
    {RealArray(Cycle(PhaseValues, n, k) \o Cycle(AmplitudeValues, n, k)) : k \in 1..2}
    \cup {RealArray(Cycle(PhaseValues, n, 3))}
    \cup {RealArray([i \in 1..(2 * n + 1) |-> 0])}

LegacyComplexInputs(n) ==
    {ComplexArray([i \in 1..n |-> Times(MaxAmp, exp_1j(q))]) : q \in {1 - HalfTurn, 1}}

\* an assignment: the attribute and the value given
Assignment(attr, value) == [attr |-> attr, value |-> value]

Control(op, last, ph, am, exception, out) ==
    /\ lastOp' = op
    /\ arg' = last
    /\ phases' = ph
    /\ amplitudes' = am
    /\ raised' = exception
    /\ readback' = out
    /\ UNCHANGED <<num_transducers, modelVars, cacheVars, cacheHist, assigned, evalHist>>

\* array.phases = value
SetPhases ==
    \E value \in RealInputs(PhaseValues, num_transducers) :
        Control("phases=", Assignment("phases", value), value.data, amplitudes, NoException, None)

\* array.amplitudes = value
SetAmplitudes ==
    \E value \in RealInputs(AmplitudeValues, num_transducers) :
        Control("amplitudes=", Assignment("amplitudes", value), phases, value.data, NoException, None)

\* array.complex_amplitudes = value
SetComplexAmplitudes ==
    \E value \in ComplexInputs(num_transducers) :
        \E ph \in complex_amplitudes_setter(value).phases :
            Control("complex_amplitudes=", Assignment("complex_amplitudes", value), ph,
                    complex_amplitudes_setter(value).amplitudes, NoException, None)

\* array.complex_amplitudes
GetComplexAmplitudes ==
    LET value == complex_amplitudes_getter(amplitudes, phases)
    IN  Control("complex_amplitudes", arg, phases, amplitudes,
                IF IsError(value) THEN value.type ELSE NoException,
                IF IsError(value) THEN None ELSE value)

\* array.phases_amplitudes = value (models.TransducerArray).  The test
\* `if np.iscomplex(value)` on an array of more than one element raises
\* ValueError.  (A complex array of one real element would be bound to phases
\* as it is; the inputs leave it out.)
phases_amplitudes_setter(value) ==
    IF Len(value.data) = 2 * num_transducers
    THEN Control("phases_amplitudes=", Assignment("phases_amplitudes", value),
                 SubSeq(value.data, 1, num_transducers),
                 SubSeq(value.data, num_transducers + 1, 2 * num_transducers),
                 NoException, None)
    ELSE IF Len(value.data) = num_transducers
    THEN IF num_transducers > 1
         THEN Control("phases_amplitudes=", Assignment("phases_amplitudes", value), phases, amplitudes, "ValueError", None)
         ELSE IF value.dtype = "complex128" /\ np_iscomplex(value.data[1])
         THEN \E ph \in complex_amplitudes_setter(value).phases :
                  Control("phases_amplitudes=", Assignment("phases_amplitudes", value), ph,
                          complex_amplitudes_setter(value).amplitudes, NoException, None)
         ELSE Control("phases_amplitudes=", Assignment("phases_amplitudes", value), value.data, amplitudes, NoException, None)
    ELSE Control("phases_amplitudes=", Assignment("phases_amplitudes", value), phases, amplitudes, "ValueError", None)

SetPhasesAmplitudes ==
    \/ \E value \in LegacyRealInputs(num_transducers) : phases_amplitudes_setter(value)
    \/ \E value \in LegacyComplexInputs(num_transducers) : phases_amplitudes_setter(value)

\* a call of an aggregator: its arguments, and the control state of the array
\* at the call
Call(receiver_position, orders) ==
    [attr |-> "spatial_derivatives",
     value |-> [receiver_position |-> receiver_position, orders |-> orders,
                phases |-> phases, amplitudes |-> amplitudes]]

ControlPositions == {SinglePoint(<<0, 0, 50000000>>)}

ControlOrders == {0, 3}

\* array.spatial_derivatives(receiver_position, orders) (arrays.TransducerArray)
Aggregate ==
    \E v \in ControlPositions, orders \in ControlOrders :
        Control("arrays.spatial_derivatives",
                Call(v, orders),
                phases, amplitudes, NoException,
                TransducerArray_spatial_derivatives(TheArray, v, orders))

\* array.spatial_derivatives(focus, orders=orders) (models.TransducerArray)
LegacyAggregate ==
    \E v \in ControlPositions, orders \in ControlOrders :
        Control("models.spatial_derivatives",
                Call(v, orders),
                phases, amplitudes, NoException,
                models_TransducerArray_spatial_derivatives(TheArray, v, orders))

InitControl ==
    /\ InitModel
    /\ \E n \in 1..MaxTransducers : InitArray(n)
    /\ InitEvaluator
    /\ InitHistory

NextControl ==
    \/ SetPhases
    \/ SetAmplitudes
    \/ SetComplexAmplitudes
    \/ GetComplexAmplitudes
    \/ SetPhasesAmplitudes
    \/ Aggregate
    \/ LegacyAggregate

SpecControl == InitControl /\ [][NextControl]_vars

(***************************************************************************)
(* Properties of the control state.                                        *)
(***************************************************************************)
\* c is amplitude * exp(1j * phase)
IsProduct(c, amplitude, phase) ==
    /\ c.abs = Abs(amplitude)
    /\ c.abs = 0 => c.arg = 0
    /\ c.abs > 0 =>
          /\ c.arg \in (1 - HalfTurn)..HalfTurn
          /\ (c.arg - phase - (IF amplitude < 0 THEN HalfTurn ELSE 0)) % (2 * HalfTurn) = 0

\* C7 as stated: after any assignments to phases, amplitudes and
\* complex_amplitudes, reading complex_amplitudes yields
\* amplitudes[i] * exp(1j * phases[i]) for every transducer i and stores
\* nothing; assigning complex_amplitudes changes only phases (np.angle) and
\* amplitudes (np.abs).
C7_DerivedView ==
    [][/\ lastOp' = "complex_amplitudes" =>
             /\ UNCHANGED <<phases, amplitudes>>
             /\ raised' = NoException
             /\ Len(phases) = num_transducers
             /\ Len(amplitudes) = num_transducers
             /\ Len(readback'.data) = num_transducers
             /\ \A i \in 1..num_transducers :
                   IsProduct(readback'.data[i], amplitudes[i], phases[i])
       /\ lastOp' = "complex_amplitudes=" =>
             /\ Len(amplitudes') = Len(arg'.value.data)
             /\ Len(phases') = Len(arg'.value.data)
             /\ \A i \in 1..Len(arg'.value.data) :
                   /\ amplitudes'[i] = arg'.value.data[i].abs
                   /\ arg'.value.data[i].abs > 0 => phases'[i] = arg'.value.data[i].arg
             /\ UNCHANGED <<num_transducers, modelVars, cacheVars>>]_vars

LengthMatches(last) ==
    \/ Len(last.value.data) = num_transducers
    \/ last.attr = "phases_amplitudes" /\ Len(last.value.data) = 2 * num_transducers

\* C9 as stated: an assignment to phases, amplitudes, complex_amplitudes or
\* phases_amplitudes of an array of the wrong length raises ValueError and
\* leaves phases and amplitudes as they were.
C9_WrongLengthRejected ==
    [][(/\ lastOp' \in {"phases=", "amplitudes=", "complex_amplitudes=", "phases_amplitudes="}
        /\ ~LengthMatches(arg'))
       => /\ raised' = "ValueError"
          /\ UNCHANGED <<phases, amplitudes>>]_vars

\* C10: the tensor of the aggregator does not depend on the phases and
\* amplitudes of the array: it is the tensor of the array with the control
\* state of construction (phases 0, amplitudes 1), entry [key, i] being the
\* model's derivative for the position and normal of transducer i; and the
\* call leaves phases and amplitudes as they were.
C10_Unweighted ==
    lastOp \in {"arrays.spatial_derivatives", "models.spatial_derivatives"} =>
        LET v == arg.value.receiver_position
            orders == arg.value.orders
            fresh == ArrayOf(num_transducers, TheModel,
                             [i \in 1..num_transducers |-> 0],
                             [i \in 1..num_transducers |-> 1])
            own == PerTransducer(fresh, v, orders, num_transducers)
        IN  /\ phases = arg.value.phases
            /\ amplitudes = arg.value.amplitudes
            /\ lastOp = "arrays.spatial_derivatives" =>
                  /\ readback = TransducerArray_spatial_derivatives(fresh, v, orders)
                  /\ readback.data = [j \in 1..Len(own[1].vals) |->
                                         [idx \in 1..num_transducers |-> own[idx].vals[j]]]
            /\ lastOp = "models.spatial_derivatives" =>
                  /\ readback = models_TransducerArray_spatial_derivatives(fresh, v, orders)
                  /\ readback.vals = [j \in 1..Len(own[1].vals) |->
                                         NdArray(<<num_transducers>>,
                                                 [idx \in 1..num_transducers |-> own[idx].vals[j]])]

\* the aggregator was called on an array with a negative amplitude and a
\* phase beyond pi
C10_Witness ==
    /\ lastOp = "arrays.spatial_derivatives"
    /\ Len(phases) = num_transducers
    /\ Len(amplitudes) = num_transducers
    /\ num_transducers = MaxTransducers
    /\ phases[1] = HalfTurn + 1
    /\ amplitudes[num_transducers] = 0 - 1
    /\ readback.type = "ndarray"
    /\ readback.shape[1] = 19

(***************************************************************************)
(* Direct evaluation of the derivative functions: each action calls one of *)
(* them with arguments drawn from the inputs and keeps the call in query   *)
(* and its return value in result.                                         *)
(***************************************************************************)
ModelKinds == {"TransducerModel", "CircularPiston", "CircularRing"}

DerivInputs ==
    {SinglePoint(<<0, 0, 50000000>>),
     Batch([i \in 1..MaxPoints |-> <<20 * i, 0, 50000000>>])}

Evaluate(fn, kind, source, receiver_position, orders, value) ==
    /\ lastOp' = fn
    /\ query' = [fn |-> fn, kind |-> kind, source |-> source,
                 receiver_position |-> receiver_position, orders |-> orders]
    /\ result' = value
    /\ UNCHANGED <<arrayVars, modelVars, cacheVars, cacheHist, assigned, ctrlHist>>

EvalSpherical ==
    \E idx \in 1..num_transducers, v \in DerivInputs, orders \in Orders :
        Evaluate("spherical_derivatives", "TransducerModel", idx, v, orders,
                 spherical_derivatives(TheArray.transducer_positions[idx], v, orders, _k))

EvalDirectivity ==
    \E kind \in ModelKinds, idx \in 1..num_transducers, v \in DerivInputs, orders \in Orders :
        Evaluate("directivity_derivatives", kind, idx, v, orders,
                 directivity_derivatives(kind, TheArray.transducer_positions[idx],
                                         TheArray.transducer_normals[idx], v, orders, _k))

EvalSpatial ==
    \E kind \in ModelKinds, idx \in 1..num_transducers, v \in DerivInputs, orders \in Orders :
        Evaluate("spatial_derivatives", kind, idx, v, orders,
                 spatial_derivatives([kind |-> kind, k |-> _k, p0 |-> P0],
                                     TheArray.transducer_positions[idx],
                                     TheArray.transducer_normals[idx], v, orders))

EvalAggregator ==
    \E kind \in ModelKinds, v \in DerivInputs, orders \in Orders :
        Evaluate("arrays.TransducerArray.spatial_derivatives", kind, 0, v, orders,
                 TransducerArray_spatial_derivatives(
                     ArrayOf(num_transducers, [kind |-> kind, k |-> _k, p0 |-> P0], phases, amplitudes),
                     v, orders))

EvalLegacyAggregator ==
    \E kind \in ModelKinds, v \in DerivInputs, orders \in Orders :
        Evaluate("models.TransducerArray.spatial_derivatives", kind, 0, v, orders,
                 models_TransducerArray_spatial_derivatives(
                     ArrayOf(num_transducers, [kind |-> kind, k |-> _k, p0 |-> P0], phases, amplitudes),
                     v, orders))

NextDerivs ==
    \/ EvalSpherical
    \/ EvalDirectivity
    \/ EvalSpatial
    \/ EvalAggregator
    \/ EvalLegacyAggregator

SpecDerivs == Init /\ [][NextDerivs]_vars

\* the keys of a returned tensor: of a dict its keys, of an ndarray the keys
\* of the entries of its rows
ResultKeys ==
    IF result.type = "dict"
    THEN DictKeys(result)
    ELSE {result.data[j][idx].key : j \in 1..Len(result.data), idx \in 1..num_transducers}

ResultLen == IF result.type = "dict" THEN Len(result.keys) ELSE Len(result.data)

\* C5: spherical_derivatives, directivity_derivatives (stencil and ring),
\* spatial_derivatives and both aggregators return for orders = n exactly
\* the entries of order <= n: 1, 4, 10, 19 entries with the listed keys.
C5_KeysPerOrder ==
    query # None =>
        /\ ~IsError(result)
        /\ query.orders = 0 =>
              ResultLen = 1 /\ ResultKeys = {""}
        /\ query.orders = 1 =>
              ResultLen = 4 /\ ResultKeys = {"", "x", "y", "z"}
        /\ query.orders = 2 =>
              ResultLen = 10
              /\ ResultKeys = {"", "x", "y", "z", "xx", "yy", "zz", "xy", "xz", "yz"}
        /\ query.orders = 3 =>
              ResultLen = 19
              /\ ResultKeys = {"", "x", "y", "z", "xx", "yy", "zz", "xy", "xz", "yz",
                               "xxx", "yyy", "zzz", "xxy", "xxz", "yyx", "yyz", "zzx", "zzy"}

\* the ring model's directivity tensor was evaluated to second order
C5_Witness ==
    /\ lastOp = "directivity_derivatives"
    /\ query.kind = "CircularRing"
    /\ query.orders = 2
    /\ ResultLen = 10
    /\ "yz" \in ResultKeys

(***************************************************************************)
(* Properties of the derivative cache.                                     *)
(***************************************************************************)
RequestOps == {"spatial_derivatives", "pressure", "velocity", "force", "stiffness"}

\* requested positions p against held positions q: equal shape and every
\* coordinate within atol + rtol * |q|
Matches(p, q) ==
    /\ p.shape = q.shape
    /\ \A j \in 1..Len(p.data) : Abs(p.data[j] - q.data[j]) <= Atol + Abs(q.data[j]) \div RtolInv

\* the derivative order of an entry key
OrderOf(key) ==
    IF key = "" THEN 0
    ELSE IF key \in {"x", "y", "z"} THEN 1
    ELSE IF key \in {"xx", "yy", "zz", "xy", "xz", "yz"} THEN 2
    ELSE 3

\* C1: a request returns the stored tensor without calling the aggregator
\* if and only if a tensor is stored, the stored order is at least the
\* requested order and the requested positions are shape-equal and close to
\* the stored positions; every other request calls the aggregator exactly
\* once and stores its result, the requested order and the requested
\* positions.
C1_HitOrRecompute ==
    [][lastOp' \in RequestOps =>
        LET r == Last(hist')
        IN  IF /\ _spatial_derivatives # None
               /\ _existing_orders >= r.orders
               /\ Matches(r.positions, _last_positions)
            THEN /\ r.calls = 0
                 /\ returned' = StoredTensor
                 /\ UNCHANGED cacheVars
            ELSE /\ r.calls = 1
                 /\ returned' = StoredTensor
                 /\ _spatial_derivatives' = TransducerArray_spatial_derivatives(TheArray, r.positions, r.orders)
                 /\ _existing_orders' = r.orders
                 /\ _last_positions' = r.positions]_vars

\* a request of a lower order than the stored one was served from the cache
C1_Witness ==
    /\ lastOp \in RequestOps
    /\ Last(hist).calls = 0
    /\ Last(hist).orders < _existing_orders
    /\ Last(hist).positions # _last_positions
    /\ returned = StoredTensor

HoldsOrdersUpTo(n) ==
    /\ _spatial_derivatives.shape[1] = Len(_spatial_derivatives.data)
    /\ \A j \in 1..Len(_spatial_derivatives.data), idx \in 1..num_transducers :
          /\ OrderOf(_spatial_derivatives.data[j][idx].key) <= n
          /\ _spatial_derivatives.data[j][idx].key = _spatial_derivatives.data[j][1].key
    /\ {_spatial_derivatives.data[j][1].key : j \in 1..Len(_spatial_derivatives.data)}
          = {key \in DerivativeKeys : OrderOf(key) <= n}
    /\ \A i, j \in 1..Len(_spatial_derivatives.data) :
          _spatial_derivatives.data[i][1].key = _spatial_derivatives.data[j][1].key => i = j

\* C3 as stated: the tensor returned for a request of order n holds the
\* entries of order <= n only.
C3_OnlyRequestedOrders ==
    lastOp \in RequestOps =>
        /\ returned = StoredTensor
        /\ HoldsOrdersUpTo(Last(hist).orders)

\* C3: the tensor returned for a request of order n holds exactly the
\* entries of order <= m, m being the stored order after the request: m = n
\* when the request was computed, and m >= n, the order of the computed
\* request that stored the tensor, when it was served from the cache.
C3_StoredOrders ==
    /\ _spatial_derivatives # None => HoldsOrdersUpTo(_existing_orders)
    /\ lastOp \in RequestOps =>
          /\ returned = StoredTensor
          /\ _existing_orders >= Last(hist).orders
          /\ Last(hist).calls = 1 => _existing_orders = Last(hist).orders

\* pressure (order 0) was served from the tensor that stiffness (order 3)
\* stored
C3_Witness ==
    /\ lastOp = "pressure"
    /\ Last(hist).calls = 0
    /\ _existing_orders = 3
    /\ Len(_spatial_derivatives.data) = 19

\* C4 as stated: for positions A and B not close to each other, the
\* requests A, B, A of one order, the first of them computed, call the
\* aggregator three times and leave A as the stored positions.
C4_ThreeCalls ==
    (/\ Len(hist) = 3
     /\ lastOp \in RequestOps
     /\ hist[1].calls = 1
     /\ hist[3].positions = hist[1].positions
     /\ hist[2].orders = hist[1].orders
     /\ hist[3].orders = hist[1].orders
     /\ ~Matches(hist[1].positions, hist[2].positions)
     /\ ~Matches(hist[2].positions, hist[1].positions))
    => /\ hist[2].calls = 1
       /\ hist[3].calls = 1
       /\ _last_positions = hist[3].positions

(***************************************************************************)
(* Floating-point classes.  A computed number is followed through the code *)
(* by its class: zero, finite (and not zero), inf or nan; of a complex     *)
(* number the class is nan or inf when a part of it is.  A value whose     *)
(* class the operands do not fix (a sum of two finite numbers may cancel)  *)
(* carries the set of its possible classes.  Overflow and underflow of     *)
(* finite operands are not followed.                                       *)
(***************************************************************************)
ZERO == {"zero"}

FINITE == {"finite"}

INF == {"inf"}

NAN == {"nan"}

\* the class of an exact integer quantity, and of a parameter [n, d, e]
ClassOfInt(i) == IF i = 0 THEN ZERO ELSE FINITE

ClassOfQ(q) == ClassOfInt(q.n)

add_classes(a, b) ==
    IF a = "nan" \/ b = "nan" THEN NAN
    ELSE IF a = "inf" /\ b = "inf" THEN {"inf", "nan"}
    ELSE IF a = "inf" \/ b = "inf" THEN INF
    ELSE IF a = "zero" THEN {b}
    ELSE IF b = "zero" THEN {a}
    ELSE {"zero", "finite"}

mul_classes(a, b) ==
    IF a = "nan" \/ b = "nan" THEN NAN
    ELSE IF {a, b} = {"zero", "inf"} THEN NAN
    ELSE IF a = "inf" \/ b = "inf" THEN INF
    ELSE IF a = "zero" \/ b = "zero" THEN ZERO
    ELSE FINITE

\* variant: a guarded division, 0 where the divisor is 0
div_classes_guarded(a, b) ==
    IF a = "nan" \/ b = "nan" THEN NAN
    ELSE IF b = "zero" THEN ZERO
    ELSE IF b = "inf" THEN (IF a = "inf" THEN NAN ELSE ZERO)
    ELSE {a}

div_classes(a, b) ==
    IF a = "nan" \/ b = "nan" THEN NAN
    ELSE IF b = "zero" THEN (IF a = "zero" THEN NAN ELSE INF)
    ELSE IF b = "inf" THEN (IF a = "inf" THEN NAN ELSE ZERO)
    ELSE {a}

\* x + y and x - y
ClsAdd(A, B) == UNION {add_classes(a, b) : a \in A, b \in B}

\* x * y
ClsMul(A, B) == UNION {mul_classes(a, b) : a \in A, b \in B}

\* x / y: numpy divides by zero without raising (inf or nan, with a warning)
ClsDiv(A, B) == UNION {div_classes(a, b) : a \in A, b \in B}

\* x**n for an integer n >= 1, and x**0.5 of x >= 0: of the class of x
ClsPow(A) == A

\* np.exp(1j * x): of modulus 1 for a finite x
ClsExp(A) == UNION {IF a \in {"zero", "finite"} THEN FINITE ELSE NAN : a \in A}

\* scipy.special.j0: j0(0) = 1, j0(inf) = 0, zeros at finite arguments
ClsJ0(A) ==
    UNION {CASE a = "zero"   -> FINITE
             [] a = "finite" -> {"zero", "finite"}
             [] a = "inf"    -> ZERO
             [] a = "nan"    -> NAN : a \in A}

\* scipy.special.j1: j1(0) = 0, j1(inf) = 0, zeros at finite arguments
ClsJ1(A) ==
    UNION {CASE a = "zero"   -> ZERO
             [] a = "finite" -> {"zero", "finite"}
             [] a = "inf"    -> ZERO
             [] a = "nan"    -> NAN : a \in A}

IsFinite(A) == A \subseteq {"zero", "finite"}

IsNonFinite(A) == A \subseteq {"inf", "nan"}
(***************************************************************************)
(* numpy arrays of points.  In the evaluation of the field, lengths are in *)
(* units of spread / 2 (5 mm).  The finite-difference stencils evaluate    *)
(* the directivity at receiver + shift * h with h = 1 / k, which is no     *)
(* rational multiple of the unit (k = 2 pi f / c), so a number is kept as  *)
(* the polynomial c0 + c1 * h + c2 * h**2 with integer coefficients,       *)
(* <<c0, c1, c2>>; it is zero exactly when its coefficients are.  An array *)
(* is [shape, data], data in row-major order; the value computed for one   *)
(* receiver point has shape <<>> and one element.                          *)
(***************************************************************************)
Num(i) == <<i, 0, 0>>

PAdd(a, b) == <<a[1] + b[1], a[2] + b[2], a[3] + b[3]>>

PSub(a, b) == <<a[1] - b[1], a[2] - b[2], a[3] - b[3]>>

\* a * b, for factors whose degrees add up to 2 at most
PMul(a, b) ==
    <<a[1] * b[1], a[1] * b[2] + a[2] * b[1], a[1] * b[3] + a[2] * b[2] + a[3] * b[1]>>

ClassOfNum(a) == IF a = Num(0) THEN ZERO ELSE FINITE

\* a point with integer coordinates, and an array of such points
Point(p) == [c \in 1..3 |-> Num(p[c])]

ArrayOfPoint(p) == NdArray(<<3>>, Point(p))

ArrayOfPoints(ps) ==
    NdArray(<<Len(ps), 3>>, [j \in 1..(3 * Len(ps)) |-> Num(ps[((j - 1) \div 3) + 1][((j - 1) % 3) + 1])])

\* transducer_positions[idx] in units of spread / 2
InHalfSpreads(p) == [c \in 1..3 |-> p[c] \div (Spread \div 2)]

\* receiver_position.shape[:-1]
Leading(shape) == SubSeq(shape, 1, Len(shape) - 1)

RECURSIVE NumElements(_)
NumElements(shape) == IF shape = <<>> THEN 1 ELSE shape[1] * NumElements(Tail(shape))

\* a - v, the vector v broadcast along the last axis of a
np_subtract(a, v) ==
    NdArray(a.shape,
            [j \in 1..Len(a.data) |-> PSub(a.data[j], Num(v[((j - 1) % Last(a.shape)) + 1]))])

\* variant: the first point's sum for every element
sum_squares_first_point(a) ==
    NdArray(Leading(a.shape),
            [i \in 1..NumElements(Leading(a.shape)) |->
                PAdd(PAdd(PMul(a.data[1], a.data[1]), PMul(a.data[2], a.data[2])),
                     PMul(a.data[3], a.data[3]))])

\* np.sum(a**2, axis=-1) and np.einsum('...i,...i', a, a), for a of shape (..., 3)
sum_squares(a) ==
    NdArray(Leading(a.shape),
            [i \in 1..NumElements(Leading(a.shape)) |->
                PAdd(PAdd(PMul(a.data[3 * i - 2], a.data[3 * i - 2]),
                          PMul(a.data[3 * i - 1], a.data[3 * i - 1])),
                     PMul(a.data[3 * i], a.data[3 * i]))])

\* a.dot(v), for a of shape (..., 3) and a 3-vector v
np_dot(a, v) ==
    NdArray(Leading(a.shape),
            [i \in 1..NumElements(Leading(a.shape)) |->
                PAdd(PAdd(PMul(a.data[3 * i - 2], Num(v[1])),
                          PMul(a.data[3 * i - 1], Num(v[2]))),
                     PMul(a.data[3 * i], Num(v[3])))])

\* the rows of an array of shape (..., 3): a[..., 0], a[..., 1], a[..., 2]
Rows(a) ==
    [i \in 1..NumElements(Leading(a.shape)) |->
        <<a.data[3 * i - 2], a.data[3 * i - 1], a.data[3 * i]>>]

(***************************************************************************)
(* Values.  An element of a computed array is kept as the function that    *)
(* computed it, the exact quantities it was computed from, and its class.  *)
(***************************************************************************)
\* the model object: its class, k, p0 and effective_radius
Model(kind, k, p0, effective_radius) ==
    [kind |-> kind, k |-> k, p0 |-> p0, effective_radius |-> effective_radius]

One == [fn |-> "1", cls |-> FINITE]

\* TransducerModel.spherical_spreading
spherical_spreading(model, source_position, receiver_position) ==
    LET diff == np_subtract(receiver_position, source_position)
        distance2 == sum_squares(diff)
    IN  NdArray(distance2.shape,
                [i \in 1..Len(distance2.data) |->
                    LET distance == ClsPow(ClassOfNum(distance2.data[i]))
                    IN  [fn |-> "np.exp(1j * k * distance) / distance",
                         k |-> model.k, distance2 |-> distance2.data[i],
                         cls |-> ClsDiv(ClsExp(ClsMul(ClassOfQ(model.k), distance)), distance)]])

\* TransducerModel.directivity: 1 for one point (ndim == 1), else an array
\* of ones of shape receiver_position.shape[:-1]
TransducerModel_directivity(model, source_position, source_normal, receiver_position) ==
    NdArray(Leading(receiver_position.shape),
            [i \in 1..NumElements(Leading(receiver_position.shape)) |-> One])

\* x**0.5 is exact where x is the square of an integer, and rounded otherwise
IsSquare(x) == x[2] = 0 /\ x[3] = 0 /\ \E r \in 0..x[1] : r * r = x[1]

\* the angle between the normal and the direction to the receiver, as
\* CircularPiston.directivity and CircularRing.directivity compute it:
\* cos_angle = dots / norm2 / norm1, sin_angle = (1 - cos_angle**2)**0.5.
\* sin2 is the exact value of sin_angle**2 as the pair <<numerator,
\* denominator>>; it is zero exactly when the receiver is on the axis.
\* There cos_angle is 1 or -1 exactly if both norms are exact; with a
\* rounded norm the quotient is 1 up to rounding, so that 1 - cos_angle**2
\* is zero, a small positive number, or a small negative one, whose power
\* 0.5 is nan.
Angle(source_position, source_normal, receiver_position) ==
    LET diff == np_subtract(receiver_position, source_position)
        dots == np_dot(diff, source_normal)
        norm1sq == Num(source_normal[1] * source_normal[1] + source_normal[2] * source_normal[2]
                       + source_normal[3] * source_normal[3])
        norm2sq == sum_squares(diff)
    IN  NdArray(dots.shape,
                [i \in 1..Len(dots.data) |->
                    LET cos_angle == ClsDiv(ClsDiv(ClassOfNum(dots.data[i]),
                                                   ClsPow(ClassOfNum(norm2sq.data[i]))),
                                            ClsPow(ClassOfNum(norm1sq)))
                        num == PSub(PMul(norm2sq.data[i], norm1sq),
                                    PMul(dots.data[i], dots.data[i]))
                    IN  [cos_angle |-> cos_angle,
                         r |-> ClsPow(ClassOfNum(norm2sq.data[i])),
                         norm |-> ClsPow(ClassOfNum(norm1sq)),
                         sin2 |-> <<num, PMul(norm2sq.data[i], norm1sq)>>,
                         sin_angle |-> IF IsFinite(cos_angle)
                                       THEN (IF num # Num(0)
                                             THEN FINITE
                                             ELSE IF IsSquare(norm1sq) /\ IsSquare(norm2sq.data[i])
                                             THEN ZERO
                                             ELSE {"zero", "finite", "nan"})
                                       ELSE ClsPow(ClsAdd(FINITE, ClsMul(cos_angle, cos_angle)))]])

\* np.where(denom == 0, 1, quotient), for a denominator of the given classes
where_zero(denom, quotient) ==
    UNION {IF c = "zero" THEN FINITE ELSE quotient : c \in denom}

\* CircularPiston.directivity: np.where(denom == 0, 1, 2 * numer / denom)
CircularPiston_directivity(model, source_position, source_normal, receiver_position) ==
    LET angle == Angle(source_position, source_normal, receiver_position)
        ka == ClsMul(ClassOfQ(model.k), ClassOfQ(model.effective_radius))
    IN  NdArray(angle.shape,
                [i \in 1..Len(angle.data) |->
                    LET denom == ClsMul(ka, angle.data[i].sin_angle)
                        nonzero == denom \ ZERO
                        quotient == ClsDiv(ClsMul(FINITE, ClsJ1(nonzero)), nonzero)
                    IN  IF denom = ZERO
                        THEN One
                        ELSE [fn |-> IF "zero" \in denom
                                     THEN "np.where(denom == 0, 1, 2 * j1(denom) / denom)"
                                     ELSE "2 * j1(denom) / denom",
                              ka |-> QMul(model.k, model.effective_radius),
                              sin2 |-> angle.data[i].sin2,
                              cls |-> where_zero(denom, quotient)]])

\* CircularRing.directivity: j0(ka * sin_angle)
CircularRing_directivity(model, source_position, source_normal, receiver_position) ==
    LET angle == Angle(source_position, source_normal, receiver_position)
        ka == ClsMul(ClassOfQ(model.k), ClassOfQ(model.effective_radius))
    IN  NdArray(angle.shape,
                [i \in 1..Len(angle.data) |->
                    [fn |-> "j0(ka * sin_angle)",
                     ka |-> QMul(model.k, model.effective_radius),
                     sin2 |-> angle.data[i].sin2,
                     cls |-> ClsJ0(ClsMul(ka, angle.data[i].sin_angle))]])

\* self.directivity, by the class of the model
directivity(model, source_position, source_normal, receiver_position) ==
    CASE model.kind = "CircularPiston" ->
            CircularPiston_directivity(model, source_position, source_normal, receiver_position)
      [] model.kind = "CircularRing" ->
            CircularRing_directivity(model, source_position, source_normal, receiver_position)
      [] OTHER ->
            TransducerModel_directivity(model, source_position, source_normal, receiver_position)

\* x * y of two computed values
Mul(x, y) == [fn |-> "*", of |-> <<x, y>>, cls |-> ClsMul(x.cls, y.cls)]

\* TransducerModel.greens_function:
\* self.p0 * self.spherical_spreading(...) * self.directivity(...)
greens_function(model, source_position, source_normal, receiver_position) ==
    LET spreading == spherical_spreading(model, source_position, receiver_position)
        direct == directivity(model, source_position, source_normal, receiver_position)
    IN  NdArray(spreading.shape,
                [i \in 1..Len(spreading.data) |->
                    Mul(Mul([fn |-> "p0", value |-> model.p0, cls |-> ClassOfInt(model.p0)],
                            spreading.data[i]),
                        direct.data[i])])

(***************************************************************************)
(* Complex coefficients.  A coefficient is an integer combination of the   *)
(* powers 0 .. HalfTurn - 1 of z = exp(1j * pi / HalfTurn), kept as the    *)
(* sequence of its HalfTurn integers; z**HalfTurn = -1.                    *)
(***************************************************************************)
CInt(i) == [j \in 1..HalfTurn |-> IF j = 1 THEN i ELSE 0]

CZero == CInt(0)

CAdd(a, b) == [j \in 1..HalfTurn |-> a[j] + b[j]]

RECURSIVE CSum(_, _, _, _)
\* the coefficient of z**(m - 1) in a * b, summed over the first i terms of a
CSum(a, b, m, i) ==
    IF i = 0
    THEN 0
    ELSE CSum(a, b, m, i - 1)
         + (IF m - i >= 0
            THEN a[i] * b[m - i + 1]
            ELSE 0 - a[i] * b[m - i + 1 + HalfTurn])

CMul(a, b) == [m \in 1..HalfTurn |-> CSum(a, b, m, HalfTurn)]

\* the coefficient of the complex number c = abs * exp(1j * arg * pi / HalfTurn)
CPolar(c) ==
    LET t == c.arg % (2 * HalfTurn)
    IN  [j \in 1..HalfTurn |->
            IF t < HalfTurn
            THEN (IF j = t + 1 THEN c.abs ELSE 0)
            ELSE (IF j = t - HalfTurn + 1 THEN 0 - c.abs ELSE 0)]

(***************************************************************************)
(* Sums of computed values.  x = sum of coefficient * value over distinct  *)
(* values is kept as the set of its <<value, coefficient>> terms with      *)
(* non-zero coefficients, and its class.  A non-finite value that a zero   *)
(* coefficient multiplies, or that cancels, leaves nan.                    *)
(***************************************************************************)
NaN == [fn |-> "nan", cls |-> NAN]

Values(terms) == {t[1] : t \in terms}

CoefficientOf(terms, v) ==
    IF v \in Values(terms) THEN (CHOOSE t \in terms : t[1] = v)[2] ELSE CZero

\* the terms with zero coefficients dropped
Reduced(terms) ==
    {t \in terms : t[2] # CZero}
    \cup {<<NaN, CInt(1)>> : t \in {u \in terms : u[2] = CZero /\ ~IsFinite(u[1].cls)}}

RECURSIVE ClassOfTerms(_)
ClassOfTerms(terms) ==
    IF terms = {}
    THEN ZERO
    ELSE LET t == CHOOSE u \in terms : TRUE
         IN  ClsAdd(ClsMul(FINITE, t[1].cls), ClassOfTerms(terms \ {t}))

Form(terms) ==
    LET reduced == Reduced(terms)
    IN  [fn |-> "sum", terms |-> reduced, cls |-> ClassOfTerms(reduced)]

\* the number 0, and a computed value as a sum of one term
Zero == Form({})

Single(v) == Form({<<v, CInt(1)>>})

\* x + y
Plus(x, y) ==
    Form({<<v, CAdd(CoefficientOf(x.terms, v), CoefficientOf(y.terms, v))>> :
              v \in Values(x.terms) \cup Values(y.terms)})

\* c * x for a coefficient c
Scaled(c, x) == Form({<<t[1], CMul(c, t[2])>> : t \in x.terms})

(***************************************************************************)
(* The names of the derivatives: the axes of each key, the doubled axis    *)
(* first ('yyx' is twice along y and once along x).                        *)
(***************************************************************************)
KeyAxes ==
    [key \in DerivativeKeys |->
        CASE key = ""    -> <<>>
          [] key = "x"   -> <<1>>
          [] key = "y"   -> <<2>>
          [] key = "z"   -> <<3>>
          [] key = "xx"  -> <<1, 1>>
          [] key = "yy"  -> <<2, 2>>
          [] key = "zz"  -> <<3, 3>>
          [] key = "xy"  -> <<1, 2>>
          [] key = "xz"  -> <<1, 3>>
          [] key = "yz"  -> <<2, 3>>
          [] key = "xxx" -> <<1, 1, 1>>
          [] key = "yyy" -> <<2, 2, 2>>
          [] key = "zzz" -> <<3, 3, 3>>
          [] key = "xxy" -> <<1, 1, 2>>
          [] key = "xxz" -> <<1, 1, 3>>
          [] key = "yyx" -> <<2, 2, 1>>
          [] key = "yyz" -> <<2, 2, 3>>
          [] key = "zzx" -> <<3, 3, 1>>
          [] key = "zzy" -> <<3, 3, 2>>]

(***************************************************************************)
(* TransducerModel.spherical_derivatives, element by element: the value of *)
(* derivatives[key] at one receiver, from diff = receiver - source of that *)
(* receiver, following the closed forms of the code.                       *)
(***************************************************************************)
\* the class of re + 1j * im
ClsComplex(re, im) ==
    UNION {IF a = "nan" \/ b = "nan" THEN NAN
           ELSE IF a = "inf" \/ b = "inf" THEN INF
           ELSE IF a = "zero" /\ b = "zero" THEN ZERO
           ELSE FINITE : a \in re, b \in im}

spherical_class(key, diff, r2, k) ==
    LET r == ClsPow(ClassOfNum(r2))
        kr == ClsMul(ClassOfQ(k), r)
        \* jkr - 1
        jkr_1 == ClsComplex(FINITE, kr)
        phase == ClsExp(kr)
        \* 3 - kr**2 - 3 * jkr
        second == ClsComplex(ClsAdd(FINITE, ClsPow(kr)), ClsMul(FINITE, kr))
        \* (jkr - 1) * (15 - kr**2) + 5 * kr**2
        third == ClsAdd(ClsMul(jkr_1, ClsAdd(FINITE, ClsPow(kr))), ClsMul(FINITE, ClsPow(kr)))
        axes == KeyAxes[key]
        d(a) == ClassOfNum(diff[a])
    IN  CASE Len(axes) = 0 ->
                ClsDiv(phase, r)
          [] Len(axes) = 1 ->
                LET coeff == ClsDiv(ClsMul(jkr_1, phase), ClsPow(r))
                IN  ClsMul(d(axes[1]), coeff)
          [] Len(axes) = 2 ->
                LET coeff == ClsDiv(ClsMul(second, phase), ClsPow(r))
                    const == ClsDiv(ClsMul(jkr_1, phase), ClsPow(r))
                IN  IF axes[1] = axes[2]
                    THEN ClsAdd(ClsMul(ClsPow(d(axes[1])), coeff), const)
                    ELSE ClsMul(ClsMul(d(axes[1]), d(axes[2])), coeff)
          [] Len(axes) = 3 ->
                LET const == ClsDiv(ClsMul(second, phase), ClsPow(r))
                    coeff == ClsDiv(ClsMul(third, phase), ClsPow(r))
                IN  IF axes[1] = axes[3]
                    THEN ClsMul(d(axes[1]),
                                ClsAdd(ClsMul(FINITE, const), ClsMul(ClsPow(d(axes[1])), coeff)))
                    ELSE ClsMul(d(axes[3]),
                                ClsAdd(const, ClsMul(ClsPow(d(axes[1])), coeff)))

spherical_element(key, diff, r2, k) ==
    [fn |-> "spherical_derivatives", key |-> key, k |-> k, diff |-> diff, r2 |-> r2,
     cls |-> spherical_class(key, diff, r2, k)]

\* the dict of the method: per key, the array of its values at the receivers
spherical_values(source_position, receiver_position, orders, k) ==
    LET keys == spherical_keys(orders)
        diff == np_subtract(receiver_position, source_position)
        rows == Rows(diff)
        r2 == sum_squares(diff)
    IN  Dict(keys,
             [j \in 1..Len(keys) |->
                 NdArray(r2.shape,
                         [i \in 1..Len(rows) |->
                             spherical_element(keys[j], rows[i], r2.data[i], k)])])

(***************************************************************************)
(* A call of a function of the library on its own: the call is kept in     *)
(* query and its return value in result.                                   *)
(***************************************************************************)
Return(fn, inputs, value) ==
    /\ lastOp' = fn
    /\ query' = inputs
    /\ result' = value
    /\ UNCHANGED <<arrayVars, modelVars, cacheVars, cacheHist, assigned, ctrlHist>>

(***************************************************************************)
(* Vectors of three components.                                            *)
(***************************************************************************)
dot(a, b) == a[1] * b[1] + a[2] * b[2] + a[3] * b[3]

plus(a, b) == [c \in 1..3 |-> a[c] + b[c]]

minus(a, b) == [c \in 1..3 |-> a[c] - b[c]]

times(s, a) == [c \in 1..3 |-> s * a[c]]

cross(a, b) ==
    <<a[2] * b[3] - a[3] * b[2], a[3] * b[1] - a[1] * b[3], a[1] * b[2] - a[2] * b[1]>>

\* x**0.5, of a perfect square
sqrt(x) == CHOOSE r \in 0..x : r * r = x

\* normal /= (normal**2).sum()**0.5, of a vector along a coordinate axis
normalized(normal) == [c \in 1..3 |-> normal[c] \div sqrt(dot(normal, normal))]

(***************************************************************************)
(* rectangular_grid and RectangularArray.grid_generator, rotation = 0:     *)
(* the grid in the xy-plane, turned to the plane of the normal and moved   *)
(* to the offset.  Lengths are in units of spread / 2, where the grid      *)
(* coordinates are the integers -(n - 1), -(n - 3), ..., n - 1.            *)
(***************************************************************************)
linspace(n) == [i \in 1..n |-> 2 * i - n - 1]

\* np.meshgrid(x, y, 0), flattened and stacked
meshgrid(shape) ==
    [p \in 1..(shape[1] * shape[2]) |->
        <<linspace(shape[1])[((p - 1) % shape[1]) + 1],
          linspace(shape[2])[((p - 1) \div shape[1]) + 1],
          0>>]

eye == <<<<1, 0, 0>>, <<0, 1, 0>>, <<0, 0, 1>>>>

rotation_matrix(normal) ==
    IF normal[1] # 0 \/ normal[2] # 0
    THEN LET rotation_vector == normalized(cross(normal, <<0, 0, 1>>))
             cross_product_matrix ==
                 <<<<0, 0 - rotation_vector[3], rotation_vector[2]>>,
                   <<rotation_vector[3], 0, 0 - rotation_vector[1]>>,
                   <<0 - rotation_vector[2], rotation_vector[1], 0>>>>
             cos == normal[3]
             sin == sqrt(1 - cos * cos)
         IN  [r \in 1..3 |-> [c \in 1..3 |->
                 cos * eye[r][c] + sin * cross_product_matrix[r][c]
                 + (1 - cos) * rotation_vector[r] * rotation_vector[c]]]
    ELSE eye

\* positions.dot(rotation_matrix) + offset
placed(positions, matrix, offset) ==
    [p \in 1..Len(positions) |->
        [c \in 1..3 |->
            positions[p][1] * matrix[1][c] + positions[p][2] * matrix[2][c]
            + positions[p][3] * matrix[3][c] + offset[c]]]

rectangular_grid(shape, offset, normal) ==
    LET unit == normalized(normal)
        positions == meshgrid(shape)
    IN  [positions |-> placed(positions, rotation_matrix(unit), offset),
         normals   |-> [p \in 1..Len(positions) |-> unit]]

RectangularArray_grid_generator(shape, offset, normal) ==
    LET unit == normalized(normal)
        positions == meshgrid(shape)
    IN  [positions |-> placed(positions, rotation_matrix(unit), offset),
         normals   |-> [p \in 1..Len(positions) |-> unit]]

\* models.double_sided_grid
double_sided_grid(shape, separation, offset, normal) ==
    LET unit == normalized(normal)
        half_1 == rectangular_grid(shape, offset, unit)
        half_2 == rectangular_grid(shape, plus(offset, times(separation, unit)), times(0 - 1, unit))
    IN  [positions |-> half_1.positions \o half_2.positions,
         normals   |-> half_1.normals \o half_2.normals]

\* DoublesidedArray.grid_generator over RectangularArray; the separation is
\* an even number of units, 0.5 * separation a whole one
DoublesidedArray_grid_generator(shape, separation, offset, normal) ==
    LET unit == normalized(normal)
        half_1 == RectangularArray_grid_generator(
                      shape, minus(offset, times(separation \div 2, unit)), unit)
        half_2 == RectangularArray_grid_generator(
                      shape, plus(offset, times(separation \div 2, unit)), times(0 - 1, unit))
    IN  [positions |-> half_1.positions \o half_2.positions,
         normals   |-> half_1.normals \o half_2.normals]

(***************************************************************************)
(* The grid generators called on their own.                                *)
(***************************************************************************)
MaxRows == 2

GridShapes == {<<n, rows>> : n \in 1..MaxTransducers, rows \in 1..MaxRows}

AxisNormals ==
    {times(s, e) : s \in {1, 0 - 1, 2, 0 - 2}, e \in {<<1, 0, 0>>, <<0, 1, 0>>, <<0, 0, 1>>}}

GridOffsets == {<<0, 0, 0>>, <<1, 0 - 2, 3>>}

Separations == {2, 6}

GridInputs ==
    [shape : GridShapes, separation : Separations, offset : GridOffsets, normal : AxisNormals]

CallDoublesidedArray ==
    \E v \in GridInputs :
        Return("DoublesidedArray.grid_generator", v,
               DoublesidedArray_grid_generator(v.shape, v.separation, v.offset, v.normal))

CallDoubleSidedGrid ==
    \E v \in GridInputs :
        Return("double_sided_grid", v,
               double_sided_grid(v.shape, v.separation, v.offset, v.normal))

NextGrid ==
    \/ CallDoublesidedArray
    \/ CallDoubleSidedGrid

SpecGrid == Init /\ [][NextGrid]_vars

GridCalls == {"DoublesidedArray.grid_generator", "double_sided_grid"}

HalfSize == query.shape[1] * query.shape[2]

\* the signed distance of a point from the plane through the offset
Height(p) == dot(minus(p, query.offset), normalized(query.normal))

\* C19: a double-sided grid made by DoublesidedArray.grid_generator or by
\* double_sided_grid has 2n elements; the first n have the normal `normal`
\* (normalised), the last n its opposite; the two halves lie `separation`
\* apart along the normal, and `offset` is the centre between them.
C19_DoubleSided ==
    lastOp \in GridCalls =>
        /\ Len(result.positions) = 2 * HalfSize
        /\ Len(result.normals) = 2 * HalfSize
        /\ \A i \in 1..HalfSize :
              /\ result.normals[i] = normalized(query.normal)
              /\ result.normals[HalfSize + i] = times(0 - 1, normalized(query.normal))
              /\ 2 * Height(result.positions[i]) = 0 - query.separation
              /\ 2 * Height(result.positions[HalfSize + i]) = query.separation

(***************************************************************************)
(* TransducerModel.directivity_derivatives: the finite-difference table.   *)
(* An entry is the sequence of its <<shift, weight>> pairs, the weights in *)
(* quarters (0.25 is 1, 0.5 is 2, 1 is 4).                                 *)
(***************************************************************************)
First1Stencil(e) == <<<<e, 2>>, <<times(0 - 1, e), 0 - 2>>>>

\* variant: the second difference with the centre weight -1
Pure2Stencil_light(e) == <<<<e, 4>>, <<<<0, 0, 0>>, 0 - 4>>, <<times(0 - 1, e), 4>>>>

Pure2Stencil(e) == <<<<e, 4>>, <<<<0, 0, 0>>, 0 - 8>>, <<times(0 - 1, e), 4>>>>

Mixed2Stencil(a, b, c, d) == <<<<a, 1>>, <<b, 1>>, <<c, 0 - 1>>, <<d, 0 - 1>>>>

Pure3Stencil(e) ==
    <<<<times(2, e), 2>>, <<times(0 - 2, e), 0 - 2>>, <<e, 0 - 4>>, <<times(0 - 1, e), 4>>>>

Mixed3Stencil(a, b, c, d, e, f) ==
    <<<<a, 2>>, <<b, 0 - 2>>, <<c, 0 - 2>>, <<d, 2>>, <<e, 0 - 4>>, <<f, 4>>>>

finite_difference_coefficients ==
    [key \in DerivativeKeys |->
        CASE key = ""    -> <<<<<<0, 0, 0>>, 4>>>>
          [] key = "x"   -> First1Stencil(<<1, 0, 0>>)
          [] key = "y"   -> First1Stencil(<<0, 1, 0>>)
          [] key = "z"   -> First1Stencil(<<0, 0, 1>>)
          [] key = "xx"  -> Pure2Stencil(<<1, 0, 0>>)
          [] key = "yy"  -> Pure2Stencil(<<0, 1, 0>>)
          [] key = "zz"  -> Pure2Stencil(<<0, 0, 1>>)
          [] key = "xy"  -> Mixed2Stencil(<<1, 1, 0>>, <<0 - 1, 0 - 1, 0>>, <<1, 0 - 1, 0>>, <<0 - 1, 1, 0>>)
          [] key = "xz"  -> Mixed2Stencil(<<1, 0, 1>>, <<0 - 1, 0, 0 - 1>>, <<1, 0, 0 - 1>>, <<0 - 1, 0, 1>>)
          [] key = "yz"  -> Mixed2Stencil(<<0, 1, 1>>, <<0, 0 - 1, 0 - 1>>, <<0, 0 - 1, 1>>, <<0, 1, 0 - 1>>)
          [] key = "xxx" -> Pure3Stencil(<<1, 0, 0>>)
          [] key = "yyy" -> Pure3Stencil(<<0, 1, 0>>)
          [] key = "zzz" -> Pure3Stencil(<<0, 0, 1>>)
          [] key = "xxy" -> Mixed3Stencil(<<1, 1, 0>>, <<0 - 1, 0 - 1, 0>>, <<1, 0 - 1, 0>>,
                                          <<0 - 1, 1, 0>>, <<0, 1, 0>>, <<0, 0 - 1, 0>>)
          [] key = "xxz" -> Mixed3Stencil(<<1, 0, 1>>, <<0 - 1, 0, 0 - 1>>, <<1, 0, 0 - 1>>,
                                          <<0 - 1, 0, 1>>, <<0, 0, 1>>, <<0, 0, 0 - 1>>)
          [] key = "yyx" -> Mixed3Stencil(<<1, 1, 0>>, <<0 - 1, 0 - 1, 0>>, <<0 - 1, 1, 0>>,
                                          <<1, 0 - 1, 0>>, <<1, 0, 0>>, <<0 - 1, 0, 0>>)
          [] key = "yyz" -> Mixed3Stencil(<<0, 1, 1>>, <<0, 0 - 1, 0 - 1>>, <<0, 1, 0 - 1>>,
                                          <<0, 0 - 1, 1>>, <<0, 0, 1>>, <<0, 0, 0 - 1>>)
          [] key = "zzx" -> Mixed3Stencil(<<1, 0, 1>>, <<0 - 1, 0, 0 - 1>>, <<0 - 1, 0, 1>>,
                                          <<1, 0, 0 - 1>>, <<1, 0, 0>>, <<0 - 1, 0, 0>>)
          [] key = "zzy" -> Mixed3Stencil(<<0, 1, 1>>, <<0, 0 - 1, 0 - 1>>, <<0, 0 - 1, 1>>,
                                          <<0, 1, 0 - 1>>, <<0, 1, 0>>, <<0, 0 - 1, 0>>)]

\* the table entry of a key: its shifts and its weights
Stencil(key) == finite_difference_coefficients[key]

\* shifts * h + receiver_position[..., np.newaxis, :]
shifted(receiver_position, stencil) ==
    NdArray(Leading(receiver_position.shape) \o <<Len(stencil), 3>>,
            [j \in 1..(NumElements(Leading(receiver_position.shape)) * Len(stencil) * 3) |->
                LET i == (j - 1) \div (3 * Len(stencil))
                    s == ((j - 1) \div 3) % Len(stencil)
                    c == (j - 1) % 3
                IN  PAdd(<<0, stencil[s + 1][1][c + 1], 0>>, receiver_position.data[3 * i + c + 1])])

RECURSIVE Sum(_)
\* the sum of a sequence of sums
Sum(seq) == IF seq = <<>> THEN Zero ELSE Plus(seq[1], Sum(Tail(seq)))

\* np.sum(values * weights, axis=-1) / h**len(derivative), one element per
\* receiver; values has one more axis than the result, of the stencil's length
stencil_sum(key, values, stencil, h) ==
    NdArray(Leading(values.shape),
            [i \in 1..NumElements(Leading(values.shape)) |->
                LET quarters == Sum([s \in 1..Len(stencil) |->
                                        Scaled(CInt(stencil[s][2]),
                                               Single(values.data[(i - 1) * Len(stencil) + s]))])
                IN  [fn |-> "np.sum(directivity * weights, axis=-1) / h**len(derivative)",
                     key |-> key, h |-> h, quarters |-> quarters,
                     cls |-> ClsDiv(quarters.cls, ClsPow(ClassOfQ(h)))]])

\* TransducerModel.directivity_derivatives, the stencils applied to the
\* directivity of the model's class
stencil_values(model, source_position, source_normal, receiver_position, orders) ==
    LET table == finite_difference_keys(orders)
        h == QDiv(QInt(1), model.k)
    IN  Dict(table,
             [j \in 1..Len(table) |->
                 stencil_sum(table[j],
                             directivity(model, source_position, source_normal,
                                         shifted(receiver_position, Stencil(table[j]))),
                             Stencil(table[j]), h)])

(***************************************************************************)
(* The stencils applied to a polynomial directivity.  The directivity is   *)
(* the monomial x**a[1] * y**a[2] * z**a[3] of the receiver coordinates;   *)
(* the step h is a whole number of units here, so that the sum             *)
(* np.sum(directivity(shifts * h + receiver) * weights) is an integer      *)
(* number of quarters.                                                     *)
(***************************************************************************)
MaxStep == 2

InitWith(inputs) ==
    /\ InitModel
    /\ InitArray(MaxTransducers)
    /\ InitEvaluator
    /\ lastOp = "init"
    /\ hist = <<>>
    /\ returned = Nothing
    /\ assigned = None
    /\ arg = None
    /\ raised = NoException
    /\ readback = None
    /\ query \in inputs
    /\ result = None

RECURSIVE Power(_, _)
Power(x, n) == IF n = 0 THEN 1 ELSE x * Power(x, n - 1)

Monomial(a, p) == Power(p[1], a[1]) * Power(p[2], a[2]) * Power(p[3], a[3])

Degree(a) == a[1] + a[2] + a[3]

RECURSIVE weighted_sum(_, _, _, _)
\* np.sum(directivity(shifts * h + receiver_position) * weights), in quarters
weighted_sum(stencil, a, receiver_position, h) ==
    IF stencil = <<>>
    THEN 0
    ELSE stencil[1][2] * Monomial(a, plus(times(h, stencil[1][1]), receiver_position))
         + weighted_sum(Tail(stencil), a, receiver_position, h)

Monomials == {a \in (0..3) \X (0..3) \X (0..3) : Degree(a) <= 3}

StencilPoints == {<<0, 0, 0>>, <<1, 2, 3>>, <<0 - 1, 1, 2>>}

StencilInputs ==
    [key : DerivativeKeys, a : Monomials, receiver_position : StencilPoints, h : 1..MaxStep]

ApplyStencil ==
    /\ lastOp = "init"
    /\ Return("directivity_derivatives", query,
              [quarters |-> weighted_sum(Stencil(query.key), query.a, query.receiver_position, query.h),
               order |-> Len(KeyAxes[query.key])])

NextStencil == ApplyStencil

SpecStencil == InitWith(StencilInputs) /\ [][NextStencil]_vars

\* the number of times axis c occurs in a key
Count(axes, c) == Cardinality({j \in 1..Len(axes) : axes[j] = c})

RECURSIVE Falling(_, _)
\* n * (n - 1) * ... * (n - m + 1)
Falling(n, m) == IF m = 0 THEN 1 ELSE n * Falling(n - 1, m - 1)

\* the partial derivative of a monomial along the axes of a key, at p
Derivative(axes, a, p) ==
    IF \E c \in 1..3 : Count(axes, c) > a[c]
    THEN 0
    ELSE Falling(a[1], Count(axes, 1)) * Falling(a[2], Count(axes, 2)) * Falling(a[3], Count(axes, 3))
         * Monomial([c \in 1..3 |-> a[c] - Count(axes, c)], p)

\* the shifts and the weights (in quarters) of a stencil
Shifts(stencil) == {stencil[s][1] : s \in 1..Len(stencil)}

Weights(stencil) == [s \in 1..Len(stencil) |-> stencil[s][2]]

Unit(c) == [d \in 1..3 |-> IF d = c THEN 1 ELSE 0]

\* C14: the stencil of a derivative of order n is exact on every monomial
\* of total degree <= n: the weighted sum of the monomial at the points
\* receiver + shift * h, divided by h**n, is the derivative of the monomial
\* at the receiver (zero for a constant directivity and n >= 1).  The first
\* order stencils are +-0.5 at +-h, the pure second order ones 1, -2, 1 at
\* h, 0, -h, the mixed second order ones +-0.25 at the four diagonal
\* points, the third order ones take 4 to 6 points.
C14_StencilExact ==
    lastOp = "directivity_derivatives" =>
        LET axes == KeyAxes[query.key]
            stencil == Stencil(query.key)
        IN  /\ result.order = Len(axes)
            /\ Degree(query.a) <= Len(axes) =>
                  result.quarters
                     = 4 * Power(query.h, Len(axes)) * Derivative(axes, query.a, query.receiver_position)
            /\ Len(axes) = 1 =>
                  stencil = <<<<Unit(axes[1]), 2>>, <<times(0 - 1, Unit(axes[1])), 0 - 2>>>>
            /\ Len(axes) = 2 /\ axes[1] = axes[2] =>
                  stencil = <<<<Unit(axes[1]), 4>>, <<<<0, 0, 0>>, 0 - 8>>,
                              <<times(0 - 1, Unit(axes[1])), 4>>>>
            /\ Len(axes) = 2 /\ axes[1] # axes[2] =>
                  /\ Len(stencil) = 4
                  /\ Shifts(stencil)
                        = {plus(times(s, Unit(axes[1])), times(t, Unit(axes[2]))) :
                               s, t \in {1, 0 - 1}}
                  /\ \A s \in 1..4 :
                        Weights(stencil)[s]
                           = stencil[s][1][axes[1]] * stencil[s][1][axes[2]]
            /\ Len(axes) = 3 => Len(stencil) \in 4..6

\* a third-order mixed stencil was applied to a monomial of degree 3 whose
\* derivative is not zero
C14_Witness ==
    /\ lastOp = "directivity_derivatives"
    /\ query.key = "yyx"
    /\ query.a = <<1, 2, 0>>
    /\ query.h = 2
    /\ result.quarters = 64

(***************************************************************************)
(* CircularRing.directivity_derivatives: the closed forms.  The quotients  *)
(* of Bessel functions are taken through np.where, which selects their     *)
(* limits where sin == 0.                                                  *)
(***************************************************************************)
\* np.where(sin == 0, 0.5, j1(ka_sin) / ka_sin)
J1_xi(sin, ka_sin) ==
    LET nonzero == ka_sin \ ZERO
        quotient == ClsDiv(ClsJ1(nonzero), nonzero)
    IN  IF sin = ZERO
        THEN [value |-> "0.5", cls |-> FINITE]
        ELSE [value |-> IF "zero" \in sin
                        THEN "np.where(sin == 0, 0.5, j1(ka_sin) / ka_sin)"
                        ELSE "j1(ka_sin) / ka_sin",
              cls |-> where_zero(sin, quotient)]

\* np.where(sin == 0, 0.125, (2 * J1_xi - J0) / ka_sin**2)
J2_xi2(sin, ka_sin, J1, J0) ==
    LET nonzero == ka_sin \ ZERO
        quotient == ClsDiv(ClsAdd(ClsMul(FINITE, J1.cls), J0), ClsPow(nonzero))
    IN  IF sin = ZERO
        THEN [value |-> "0.125", cls |-> FINITE]
        ELSE [value |-> IF "zero" \in sin
                        THEN "np.where(sin == 0, 0.125, (2 * J1_xi - J0) / ka_sin**2)"
                        ELSE "(2 * J1_xi - J0) / ka_sin**2",
              cls |-> where_zero(sin, quotient)]

\* np.where(sin == 0, 1 / 48, (4 * J2_xi2 - J1_xi) / ka_sin**2)
J3_xi3(sin, ka_sin, J2, J1) ==
    LET nonzero == ka_sin \ ZERO
        quotient == ClsDiv(ClsAdd(ClsMul(FINITE, J2.cls), J1.cls), ClsPow(nonzero))
    IN  IF sin = ZERO
        THEN [value |-> "1 / 48", cls |-> FINITE]
        ELSE [value |-> IF "zero" \in sin
                        THEN "np.where(sin == 0, 1 / 48, (4 * J2_xi2 - J1_xi) / ka_sin**2)"
                        ELSE "(4 * J2_xi2 - J1_xi) / ka_sin**2",
              cls |-> where_zero(sin, quotient)]

\* the value of derivatives[key] at one receiver: angle is the receiver's
\* entry of Angle, diff its receiver - source
ring_element(model, key, angle, diff, source_normal) ==
    LET ka == ClsMul(ClassOfQ(model.k), ClassOfQ(model.effective_radius))
        cos == angle.cos_angle
        sin == angle.sin_angle
        ka_sin == ClsMul(ka, sin)
        J0 == ClsJ0(ka_sin)
        J1 == J1_xi(sin, ka_sin)
        J2 == J2_xi2(sin, ka_sin, J1, J0)
        J3 == J3_xi3(sin, ka_sin, J2, J1)
        \* cos_dx, cos_dx2, cos_dxdy, cos_dx3, ...: a polynomial of diff, dot
        \* and n, divided by a power of r and by norm
        cos_d == ClsDiv(ClsDiv({"zero", "finite"}, ClsPow(angle.r)), angle.norm)
        first_order_const == ClsMul(ClsMul(J1.cls, ClsPow(ka)), cos)
        second_order_const ==
            ClsAdd(ClsMul(ClsMul(J2.cls, ClsPow(ka)), ClsPow(cos)), ClsMul(J1.cls, ClsPow(ka)))
        third_order_const ==
            ClsAdd(ClsMul(ClsMul(J3.cls, ClsPow(ka)), ClsPow(cos)),
                   ClsMul(ClsMul(ClsMul(FINITE, J2.cls), ClsPow(ka)), cos))
        order == Len(KeyAxes[key])
    IN  [fn |-> "CircularRing.directivity_derivatives", key |-> key,
         ka |-> QMul(model.k, model.effective_radius),
         diff |-> diff, n |-> source_normal,
         J1_xi  |-> IF order > 0 THEN J1.value ELSE "",
         J2_xi2 |-> IF order > 1 THEN J2.value ELSE "",
         J3_xi3 |-> IF order > 2 THEN J3.value ELSE "",
         cls |-> CASE order = 0 -> J0
                   [] order = 1 -> ClsMul(first_order_const, cos_d)
                   [] order = 2 -> ClsAdd(ClsMul(second_order_const, ClsMul(cos_d, cos_d)),
                                          ClsMul(first_order_const, cos_d))
                   [] order = 3 -> ClsAdd(ClsAdd(ClsMul(third_order_const, ClsPow(cos_d)),
                                                 ClsMul(ClsMul(FINITE, second_order_const),
                                                        ClsMul(cos_d, cos_d))),
                                          ClsMul(first_order_const, cos_d))]

ring_values(model, source_position, source_normal, receiver_position, orders) ==
    LET keys == ring_keys(orders)
        angle == Angle(source_position, source_normal, receiver_position)
        rows == Rows(np_subtract(receiver_position, source_position))
    IN  Dict(keys,
             [j \in 1..Len(keys) |->
                 NdArray(angle.shape,
                         [i \in 1..Len(angle.data) |->
                             ring_element(model, keys[j], angle.data[i], rows[i], source_normal)])])

\* self.directivity_derivatives, by the class of the model
directivity_values(model, source_position, source_normal, receiver_position, orders) ==
    IF model.kind = "CircularRing"
    THEN ring_values(model, source_position, source_normal, receiver_position, orders)
    ELSE stencil_values(model, source_position, source_normal, receiver_position, orders)

(***************************************************************************)
(* TransducerModel.spatial_derivatives: per key, the sum of the products   *)
(* the code writes (ProductRule), every entry then multiplied by p0.       *)
(***************************************************************************)
\* variant: the loop over the keys run twice
times_p0_twice(model, x) == Scaled(CInt(model.p0 * model.p0), x)

\* derivatives[key] *= self.p0
times_p0(model, x) == Scaled(CInt(model.p0), x)

RECURSIVE product_sum(_, _, _, _)
\* the sum of coefficient * s[skey] * d[dkey] at receiver i over the terms
product_sum(terms, s, d, i) ==
    IF terms = {}
    THEN Zero
    ELSE LET t == CHOOSE u \in terms : TRUE
         IN  Plus(Scaled(CInt(t[1]),
                         Single(Mul(Lookup(s, t[2]).data[i], Lookup(d, t[3]).data[i]))),
                  product_sum(terms \ {t}, s, d, i))

product_rule_sum(key, s, d, i) == product_sum(ProductRule(key), s, d, i)

\* variant: the entries multiplied by p0 once more for every order above 0
spatial_values_scaled_per_order(model, source_position, source_normal, receiver_position, orders) ==
    LET s == spherical_values(source_position, receiver_position, orders, model.k)
        d == directivity_values(model, source_position, source_normal, receiver_position, orders)
        keys == spatial_keys(orders)
        shape == Lookup(s, "").shape
    IN  Dict(keys,
             [j \in 1..Len(keys) |->
                 NdArray(shape,
                         [i \in 1..NumElements(shape) |->
                             IF orders > 0
                             THEN times_p0(model, times_p0(model, product_rule_sum(keys[j], s, d, i)))
                             ELSE times_p0(model, product_rule_sum(keys[j], s, d, i))])])

spatial_values(model, source_position, source_normal, receiver_position, orders) ==
    LET s == spherical_values(source_position, receiver_position, orders, model.k)
        d == directivity_values(model, source_position, source_normal, receiver_position, orders)
        keys == spatial_keys(orders)
        shape == Lookup(s, "").shape
    IN  Dict(keys,
             [j \in 1..Len(keys) |->
                 NdArray(shape,
                         [i \in 1..NumElements(shape) |->
                             times_p0(model, product_rule_sum(keys[j], s, d, i))])])

(***************************************************************************)
(* The functions of a transducer model called on their own, on one point   *)
(* or on a batch of points.  The source is a transducer of the array; the  *)
(* receivers are taken relative to the first transducer: the source point  *)
(* itself, points on its axis (for a normal along z and for a tilted one)  *)
(* and points off it.                                                      *)
(***************************************************************************)
Source(idx) == InHalfSpreads(grid_generator(MaxTransducers).positions[idx])

FieldPoints ==
    <<Source(1),
      plus(Source(1), <<0, 0, 2>>),
      plus(Source(1), <<2, 0, 0>>),
      plus(Source(1), <<1, 2, 2>>),
      plus(Source(1), <<0, 2, 3>>)>>

\* the batch of MaxPoints points that starts at a given point of the list
FieldBatch(start) ==
    [i \in 1..MaxPoints |-> FieldPoints[((start + i - 2) % Len(FieldPoints)) + 1]]

Receivers ==
    {ArrayOfPoint(FieldPoints[j]) : j \in 1..Len(FieldPoints)}
    \cup {ArrayOfPoints(FieldBatch(j)) : j \in 1..Len(FieldPoints)}

SourceNormals == {<<0, 0, 1>>, <<0, 2, 3>>}

ValueInputs ==
    [kind : ModelKinds, idx : {1, MaxTransducers}, source_normal : SourceNormals,
     receiver_position : Receivers, orders : Orders]

\* the model object of a call: effective_radius is one unit
ModelOf(kind) == Model(kind, _k, P0, QInt(1))

ApplyGreensFunction ==
    /\ lastOp = "init"
    /\ Return("greens_function", query,
              greens_function(ModelOf(query.kind), Source(query.idx), query.source_normal,
                              query.receiver_position))

ApplySphericalSpreading ==
    /\ lastOp = "init"
    /\ Return("spherical_spreading", query,
              spherical_spreading(ModelOf(query.kind), Source(query.idx),
                                  query.receiver_position))

ApplyDirectivity ==
    /\ lastOp = "init"
    /\ Return("directivity", query,
              directivity(ModelOf(query.kind), Source(query.idx), query.source_normal,
                          query.receiver_position))

ApplySphericalDerivatives ==
    /\ lastOp = "init"
    /\ Return("spherical_derivatives", query,
              spherical_values(Source(query.idx), query.receiver_position, query.orders, _k))

ApplyDirectivityDerivatives ==
    /\ lastOp = "init"
    /\ Return("directivity_derivatives", query,
              directivity_values(ModelOf(query.kind), Source(query.idx), query.source_normal,
                                 query.receiver_position, query.orders))

ApplySpatialDerivatives ==
    /\ lastOp = "init"
    /\ Return("spatial_derivatives", query,
              spatial_values(ModelOf(query.kind), Source(query.idx), query.source_normal,
                             query.receiver_position, query.orders))

NextValues ==
    \/ ApplyGreensFunction
    \/ ApplySphericalSpreading
    \/ ApplyDirectivity
    \/ ApplySphericalDerivatives
    \/ ApplyDirectivityDerivatives
    \/ ApplySpatialDerivatives

SpecValues == InitWith(ValueInputs) /\ [][NextValues]_vars

(***************************************************************************)
(* The Leibniz rule, from the multi-indices of the keys: the derivative    *)
(* alpha of s * d is the sum over beta <= alpha of                         *)
(* binomial(alpha, beta) * (derivative beta of s) * (derivative            *)
(* alpha - beta of d).                                                     *)
(***************************************************************************)
MultiIndex(key) == [c \in 1..3 |-> Count(KeyAxes[key], c)]

KeyOf(beta) == CHOOSE key \in DerivativeKeys : MultiIndex(key) = beta

Binomial(n, m) == Falling(n, m) \div Falling(m, m)

Leibniz(key) ==
    LET alpha == MultiIndex(key)
    IN  {<<Binomial(alpha[1], beta[1]) * Binomial(alpha[2], beta[2]) * Binomial(alpha[3], beta[3]),
           KeyOf(beta), KeyOf([c \in 1..3 |-> alpha[c] - beta[c]])>> :
             beta \in {b \in (0..3) \X (0..3) \X (0..3) : \A c \in 1..3 : b[c] <= alpha[c]}}

\* C13: every entry of TransducerModel.spatial_derivatives is p0 times the
\* Leibniz expansion of the derivative of s * d named by its key, for each
\* of the 19 keys: the products of the spherical and the directivity
\* entries with the binomial coefficients 1, 2, 3, multiplied by p0 once.
C13_Leibniz ==
    lastOp = "spatial_derivatives" =>
        LET model == ModelOf(query.kind)
            s == spherical_values(Source(query.idx), query.receiver_position, query.orders, _k)
            d == directivity_values(model, Source(query.idx), query.source_normal,
                                    query.receiver_position, query.orders)
        IN  /\ DictKeys(result) = {key \in DerivativeKeys : Len(KeyAxes[key]) <= query.orders}
            /\ \A j \in 1..Len(result.keys) :
                  /\ ProductRule(result.keys[j]) = Leibniz(result.keys[j])
                  /\ \A i \in 1..Len(result.vals[j].data) :
                        result.vals[j].data[i]
                           = Scaled(CInt(P0), product_sum(Leibniz(result.keys[j]), s, d, i))

\* all 19 entries were computed for a ring, the entry zzy a sum of 6 products
C13_Witness ==
    /\ lastOp = "spatial_derivatives"
    /\ query.kind = "CircularRing"
    /\ query.orders = 3
    /\ Len(result.keys) = 19
    /\ Cardinality(Lookup(result, "zzy").data[1].terms) = 6

\* the receiver points of a call, with their integer coordinates
PointsOf(a) ==
    [i \in 1..NumElements(Leading(a.shape)) |->
        <<a.data[3 * i - 2][1], a.data[3 * i - 1][1], a.data[3 * i][1]>>]

\* the receiver lies on the axis of the source, and is not the source
OnAxis(source_position, source_normal, p) ==
    /\ p # source_position
    /\ cross(minus(p, source_position), source_normal) = <<0, 0, 0>>

\* the values of a result at receiver i: of an array its element, of a dict
\* the elements of all its entries
ElementsAt(r, i) ==
    IF r.type = "dict" THEN {r.vals[j].data[i] : j \in 1..Len(r.vals)} ELSE {r.data[i]}

\* C15: for a receiver on the axis of the transducer (sin(theta) = 0, the
\* receiver not the source) CircularPiston.directivity returns 1, and
\* CircularRing.directivity_derivatives takes 0.5, 0.125 and 1 / 48 for
\* J1(xi) / xi, J2(xi) / xi**2 and J3(xi) / xi**3; every entry it returns
\* for that receiver is finite.
C15_OnAxisLimits ==
    lastOp \in {"directivity", "directivity_derivatives"} =>
        \A i \in 1..Len(PointsOf(query.receiver_position)) :
            OnAxis(Source(query.idx), query.source_normal, PointsOf(query.receiver_position)[i]) =>
                /\ lastOp = "directivity" /\ query.kind = "CircularPiston" =>
                      result.data[i] = One
                /\ lastOp = "directivity_derivatives" /\ query.kind = "CircularRing" =>
                      \A e \in ElementsAt(result, i) :
                          /\ IsFinite(e.cls)
                          /\ Len(KeyAxes[e.key]) >= 1 => e.J1_xi = "0.5"
                          /\ Len(KeyAxes[e.key]) >= 2 => e.J2_xi2 = "0.125"
                          /\ Len(KeyAxes[e.key]) >= 3 => e.J3_xi3 = "1 / 48"

\* the same function called on receiver i alone
Alone(i) ==
    LET p == ArrayOfPoint(PointsOf(query.receiver_position)[i])
        model == ModelOf(query.kind)
    IN  CASE lastOp = "greens_function" ->
                greens_function(model, Source(query.idx), query.source_normal, p)
          [] lastOp = "spherical_spreading" ->
                spherical_spreading(model, Source(query.idx), p)
          [] lastOp = "directivity" ->
                directivity(model, Source(query.idx), query.source_normal, p)
          [] lastOp = "spherical_derivatives" ->
                spherical_values(Source(query.idx), p, query.orders, _k)
          [] lastOp = "directivity_derivatives" ->
                directivity_values(model, Source(query.idx), query.source_normal, p, query.orders)
          [] lastOp = "spatial_derivatives" ->
                spatial_values(model, Source(query.idx), query.source_normal, p, query.orders)

\* the value at receiver i of a batch is the value computed for i alone
SameAsAlone(i) ==
    IF result.type = "dict"
    THEN /\ result.keys = Alone(i).keys
         /\ \A j \in 1..Len(result.keys) : result.vals[j].data[i] = Alone(i).vals[j].data[1]
    ELSE result.data[i] = Alone(i).data[1]

\* C16: where a receiver coincides with the source (r = 0), greens_function,
\* spherical_spreading and spherical_derivatives return a value, and every
\* value they return for that receiver is non-finite (inf or nan); the
\* values for the other receivers of the batch are those computed for that
\* receiver alone (finite, for the spherical functions).
C16_CoincidentReceiver ==
    lastOp \in {"greens_function", "spherical_spreading", "spherical_derivatives"} =>
        /\ ~IsError(result)
        /\ \A i \in 1..Len(PointsOf(query.receiver_position)) :
              IF PointsOf(query.receiver_position)[i] = Source(query.idx)
              THEN \A e \in ElementsAt(result, i) : IsNonFinite(e.cls)
              ELSE /\ lastOp # "greens_function" =>
                         \A e \in ElementsAt(result, i) : IsFinite(e.cls)
                   /\ SameAsAlone(i)

\* the spherical tensor of order 3 was computed for a batch whose first
\* receiver is the source and whose second is not
C16_Witness ==
    /\ lastOp = "spherical_derivatives"
    /\ query.orders = 3
    /\ query.receiver_position.shape = <<MaxPoints, 3>>
    /\ PointsOf(query.receiver_position)[1] = Source(query.idx)
    /\ PointsOf(query.receiver_position)[2] # Source(query.idx)
    /\ Lookup(result, "xxy").data[1].cls = NAN
    /\ Lookup(result, "xxy").data[2].cls \subseteq {"zero", "finite"}

(***************************************************************************)
(* The field of an array: the weighted superposition of its transducers.   *)
(* The array carries the positions of the rectangular grid, one normal for *)
(* all its transducers, and its control state.                             *)
(***************************************************************************)
FieldArray(kind, source_normal, ph, am) ==
    [num_transducers      |-> MaxTransducers,
     transducer_positions |-> [idx \in 1..MaxTransducers |-> Source(idx)],
     transducer_normals   |-> [idx \in 1..MaxTransducers |-> source_normal],
     transducer_model     |-> ModelOf(kind),
     phases               |-> ph,
     amplitudes           |-> am]

\* self.amplitudes[idx] * np.exp(1j * self.phases[idx])
complex_amplitude(array, idx) ==
    CPolar(Times(array.amplitudes[idx], exp_1j(array.phases[idx])))

\* c * a for a complex number c and an array of computed values
weighted(c, a) ==
    NdArray(a.shape, [i \in 1..Len(a.data) |-> Scaled(c, Single(a.data[i]))])

\* the contribution of transducer idx to the pressure
contribution(array, point, idx) ==
    weighted(complex_amplitude(array, idx),
             greens_function(array.transducer_model, array.transducer_positions[idx],
                             array.transducer_normals[idx], point))

RECURSIVE pressure_loop(_, _, _)
\* p = 0; for idx in range(n): p += contribution of idx
pressure_loop(array, point, n) ==
    IF n = 0
    THEN NdArray(Leading(point.shape), [i \in 1..NumElements(Leading(point.shape)) |-> Zero])
    ELSE LET p == pressure_loop(array, point, n - 1)
             c == contribution(array, point, n)
         IN  NdArray(p.shape, [i \in 1..Len(p.data) |-> Plus(p.data[i], c.data[i])])

\* a transducer index passed as an argument
Index(i) == [type |-> "int", value |-> i]

\* variant: the loop stops before the last transducer
calculate_pressure_all_but_last(array, point, transducer) ==
    IF transducer = None
    THEN pressure_loop(array, point, array.num_transducers - 1)
    ELSE contribution(array, point, transducer.value)

\* models.TransducerArray.calculate_pressure, for an N x 3 array of points or
\* one point; transducer is None or an index
calculate_pressure(array, point, transducer) ==
    IF transducer = None
    THEN pressure_loop(array, point, array.num_transducers)
    ELSE contribution(array, point, transducer.value)

(***************************************************************************)
(* Tensors of shape (M, N) + points, row-major: entry (j, idx, p) is the   *)
(* derivative j of transducer idx at receiver p.                           *)
(***************************************************************************)
Entry(t, j, idx, p) ==
    LET n == t.shape[2]
        points == NumElements(SubSeq(t.shape, 3, Len(t.shape)))
    IN  t.data[(j - 1) * n * points + (idx - 1) * points + p]

\* arrays.TransducerArray.spatial_derivatives, with the values of the entries
TransducerArray_spatial_values(array, receiver_position, orders) ==
    LET n == array.num_transducers
        rows == NumDerivs(orders)
        points == NumElements(Leading(receiver_position.shape))
        col == [idx \in 1..n |->
                   spatial_values(array.transducer_model, array.transducer_positions[idx],
                                  array.transducer_normals[idx], receiver_position, orders)]
    IN  NdArray(<<rows, n>> \o Leading(receiver_position.shape),
                [e \in 1..(rows * n * points) |->
                    col[(((e - 1) \div points) % n) + 1]
                        .vals[((e - 1) \div (n * points)) + 1]
                        .data[((e - 1) % points) + 1]])

\* array.amplitudes * np.exp(1j * array.phases)
complex_amplitudes(array) ==
    [idx \in 1..array.num_transducers |-> complex_amplitude(array, idx)]

\* the element of a set of one element; {f(v) : v \in {e}} names the value
\* of e in f
The(S) == CHOOSE x \in S : TRUE

\* np.einsum('i, ji...->ji...', c, t)
einsum(c, t) ==
    The({LET n == tensor.shape[2]
             points == NumElements(SubSeq(tensor.shape, 3, Len(tensor.shape)))
         IN  NdArray(tensor.shape,
                     [e \in 1..Len(tensor.data) |->
                         Scaled(c[(((e - 1) \div points) % n) + 1], tensor.data[e])]) :
         tensor \in {t}})

RECURSIVE axis1_sum(_, _, _, _)
\* t[j, 0, p] + ... + t[j, n - 1, p]
axis1_sum(t, j, p, n) ==
    IF n = 0 THEN Zero ELSE Plus(axis1_sum(t, j, p, n - 1), Entry(t, j, n, p))

\* np.sum(t, axis=1)
np_sum_axis1(t) ==
    The({LET n == tensor.shape[2]
             rest == SubSeq(tensor.shape, 3, Len(tensor.shape))
             points == NumElements(rest)
         IN  NdArray(<<tensor.shape[1]>> \o rest,
                     [e \in 1..(tensor.shape[1] * points) |->
                         axis1_sum(tensor, ((e - 1) \div points) + 1, ((e - 1) % points) + 1, n)]) :
         tensor \in {t}})

\* requirements = dict(pressure_derivs_summed=np.sum(ind_ders, axis=1),
\*                     pressure_derivs_individual=ind_ders)
requirements_of(ind_ders) ==
    The({[pressure_derivs_summed |-> np_sum_axis1(individual),
          pressure_derivs_individual |-> individual] : individual \in {ind_ders}})

\* the requirements of the cost functions, as the tests build them
requirements(array, positions, orders) ==
    requirements_of(einsum(complex_amplitudes(array),
                           TransducerArray_spatial_values(array, positions, orders)))

\* models.TransducerArray.spatial_derivatives, with the values of the entries:
\* derivatives[key][..., idx] = transducer_derivatives[key]
models_TransducerArray_spatial_values(array, focus, orders) ==
    The({LET n == array.num_transducers
             keys == models_derivative_keys(orders)
             points == NumElements(Leading(focus.shape))
         IN  Dict(keys,
                  [j \in 1..Len(keys) |->
                      NdArray(Leading(focus.shape) \o <<n>>,
                              [e \in 1..(points * n) |->
                                  Lookup(col[((e - 1) % n) + 1], keys[j]).data[((e - 1) \div n) + 1]])]) :
         col \in {[idx \in 1..array.num_transducers |->
                      spatial_values(array.transducer_model, array.transducer_positions[idx],
                                     array.transducer_normals[idx], focus, orders)]}})

\* t[0]: the first row of a tensor
Row0(t) ==
    The({NdArray(Tail(tensor.shape), SubSeq(tensor.data, 1, NumElements(Tail(tensor.shape)))) :
         tensor \in {t}})

\* the cost function Pressure: its value is the pressure, its jacobians the
\* pressure of each transducer
Pressure_values(pressure_derivs_summed) == Row0(pressure_derivs_summed)

Pressure_jacobians(pressure_derivs_individual) == Row0(pressure_derivs_individual)

\* the values and the jacobians of Pressure for given requirements
Pressure(r) ==
    The({[values |-> Pressure_values(given.pressure_derivs_summed),
          jacobians |-> Pressure_jacobians(given.pressure_derivs_individual)] : given \in {r}})

(***************************************************************************)
(* The field functions called on their own.                                *)
(***************************************************************************)
\* the control states: phases and amplitudes taken in turn from the values
FieldControls ==
    {[phases |-> Cycle(PhaseValues, MaxTransducers, j),
      amplitudes |-> Cycle(AmplitudeValues, MaxTransducers, j)] : j \in 1..Len(PhaseValues)}

FieldReceivers ==
    {ArrayOfPoint(FieldPoints[j]) : j \in {1, 4}}
    \cup {ArrayOfPoints(FieldBatch(j)) : j \in {1, 3, 4}}

\* the tensors are requested without and with the first derivatives
FieldOrders == {0, 1}

FieldInputs ==
    [kind : ModelKinds, source_normal : SourceNormals, control : FieldControls,
     receiver_position : FieldReceivers, orders : FieldOrders, transducer : {None}]

ArrayOfQuery(q) ==
    FieldArray(q.kind, q.source_normal, q.control.phases, q.control.amplitudes)

CallCalculatePressure ==
    /\ lastOp = "init"
    /\ Return("calculate_pressure", query,
              calculate_pressure(ArrayOfQuery(query), query.receiver_position, None))

CallCalculatePressureOf ==
    /\ lastOp = "init"
    /\ \E idx \in 1..MaxTransducers :
          Return("calculate_pressure", [query EXCEPT !.transducer = Index(idx)],
                 calculate_pressure(ArrayOfQuery(query), query.receiver_position, Index(idx)))

BuildRequirements ==
    /\ lastOp = "init"
    /\ Return("requirements", query,
              requirements(ArrayOfQuery(query), query.receiver_position, query.orders))

CallLegacySpatialDerivatives ==
    /\ lastOp = "init"
    /\ Return("models.TransducerArray.spatial_derivatives", query,
              models_TransducerArray_spatial_values(ArrayOfQuery(query), query.receiver_position,
                                                    query.orders))

EvaluatePressure ==
    /\ lastOp = "init"
    /\ Return("Pressure", query,
              Pressure(requirements(ArrayOfQuery(query), query.receiver_position, query.orders)))

NextField ==
    \/ CallCalculatePressure
    \/ CallCalculatePressureOf
    \/ BuildRequirements
    \/ CallLegacySpatialDerivatives
    \/ EvaluatePressure

SpecField == InitWith(FieldInputs) /\ [][NextField]_vars

(***************************************************************************)
(* Superposition.                                                          *)
(***************************************************************************)
RECURSIVE Superposed(_, _)
\* the sum of the first n contributions
Superposed(contributions, n) ==
    IF n = 0 THEN Zero ELSE Plus(Superposed(contributions, n - 1), contributions[n])

\* the number of receiver points of the call
NumPoints == NumElements(Leading(query.receiver_position.shape))

\* the unweighted derivative j of transducer idx at receiver p
Unweighted(j, idx, p) ==
    LET array == ArrayOfQuery(query)
    IN  spatial_values(array.transducer_model, array.transducer_positions[idx],
                       array.transducer_normals[idx], query.receiver_position,
                       query.orders).vals[j].data[p]

\* C11: pressure_derivs_individual[key, i] is complex_amplitude[i] times the
\* unweighted derivative of transducer i, pressure_derivs_summed[key] is the
\* sum over all transducers i of pressure_derivs_individual[key, i], and
\* calculate_pressure(point) with transducer=None is the sum over idx of
\* calculate_pressure(point, transducer=idx).
C11_Superposition ==
    /\ lastOp = "requirements" =>
          \A j \in 1..NumDerivs(query.orders), p \in 1..NumPoints :
              /\ \A idx \in 1..MaxTransducers :
                    Entry(result.pressure_derivs_individual, j, idx, p)
                        = Scaled(complex_amplitude(ArrayOfQuery(query), idx), Unweighted(j, idx, p))
              /\ result.pressure_derivs_summed.data[(j - 1) * NumPoints + p]
                    = Superposed([idx \in 1..MaxTransducers |->
                                     Entry(result.pressure_derivs_individual, j, idx, p)],
                                 MaxTransducers)
    /\ lastOp = "calculate_pressure" /\ query.transducer = None =>
          \A p \in 1..NumPoints :
              result.data[p]
                  = Superposed([idx \in 1..MaxTransducers |->
                                   calculate_pressure(ArrayOfQuery(query), query.receiver_position,
                                                      Index(idx)).data[p]],
                               MaxTransducers)

\* the requirements were built for a batch, with the first derivatives, for
\* transducers of different non-zero complex amplitudes, and the summed
\* pressure at the first receiver has a term of every transducer
C11_Witness ==
    /\ lastOp = "requirements"
    /\ query.orders = 1
    /\ query.receiver_position.shape = <<MaxPoints, 3>>
    /\ \A idx \in 1..MaxTransducers : query.control.amplitudes[idx] # 0
    /\ complex_amplitude(ArrayOfQuery(query), 1) # complex_amplitude(ArrayOfQuery(query), MaxTransducers)
    /\ IsFinite(result.pressure_derivs_summed.data[1].cls)
    /\ Cardinality(result.pressure_derivs_summed.data[1].terms) >= MaxTransducers
    /\ result.pressure_derivs_summed.data[1] # Entry(result.pressure_derivs_individual, 1, 1, 1)

(***************************************************************************)
(* Batches and single points.                                              *)
(***************************************************************************)
\* t[..., p] of an array whose last axis runs over the receivers
LastAxis(t, p) ==
    LET shape == Leading(t.shape)
    IN  NdArray(shape, [e \in 1..NumElements(shape) |-> t.data[(e - 1) * Last(t.shape) + p]])

\* t[p, ...] of an array whose first axis runs over the receivers
FirstAxis(t, p) ==
    LET shape == Tail(t.shape)
    IN  NdArray(shape, [e \in 1..NumElements(shape) |-> t.data[(p - 1) * NumElements(shape) + e]])

\* receiver p of the batch of the call, as a single point
PointAlone(p) == ArrayOfPoint(PointsOf(query.receiver_position)[p])

unit_normal(plane_normal) ==
    [num |-> plane_normal, den |-> sqrt(dot(plane_normal, plane_normal))]

\* ReflectingTransducer.__init__: the wrapped model's fields and the plane
ReflectingTransducer(kind, plane_distance, plane_normal, reflection_coefficient) ==
    [kind |-> kind, k |-> ModelOf(kind).k, p0 |-> ModelOf(kind).p0,
     effective_radius |-> ModelOf(kind).effective_radius,
     plane_distance |-> plane_distance,
     plane_normal |-> unit_normal(plane_normal),
     reflection_coefficient |-> reflection_coefficient]

\* the wrapped model, called through super()
Wrapped(self) == Model(self.kind, self.k, self.p0, self.effective_radius)

\* v - 2 * n * (v.n - distance) with n = num / den, over the common
\* denominator den**2
reflected_in(n, v, distance) ==
    [c \in 1..3 |->
        (n.den * n.den * v[c] - 2 * n.num[c] * (dot(v, n.num) - distance * n.den))
            \div (n.den * n.den)]

\* variant: the source moved to the plane, not through it
greens_function_mirror_position_on_plane(self, source_position) ==
    [c \in 1..3 |->
        (self.plane_normal.den * self.plane_normal.den * source_position[c]
         - self.plane_normal.num[c]
             * (dot(source_position, self.plane_normal.num)
                - self.plane_distance * self.plane_normal.den))
            \div (self.plane_normal.den * self.plane_normal.den)]

\* greens_function: mirror_position and mirror_normal
greens_function_mirror_position(self, source_position) ==
    reflected_in(self.plane_normal, source_position, self.plane_distance)

greens_function_mirror_normal(self, source_normal) ==
    reflected_in(self.plane_normal, source_normal, 0)

\* spatial_derivatives: mirror_position and mirror_normal
spatial_derivatives_mirror_position(self, source_position) ==
    reflected_in(self.plane_normal, source_position, self.plane_distance)

spatial_derivatives_mirror_normal(self, source_normal) ==
    reflected_in(self.plane_normal, source_normal, 0)

\* variant: the reflection is added with the coefficient 1
ReflectingTransducer_greens_function_unweighted(self, source_position, source_normal, receiver_position) ==
    The({NdArray(direct.shape,
                 [i \in 1..Len(direct.data) |->
                     Plus(Single(direct.data[i]), Single(reflected.data[i]))]) :
         direct \in {greens_function(Wrapped(self), source_position, source_normal,
                                     receiver_position)},
         reflected \in {greens_function(Wrapped(self),
                                        greens_function_mirror_position(self, source_position),
                                        greens_function_mirror_normal(self, source_normal),
                                        receiver_position)}})

\* ReflectingTransducer.greens_function:
\* direct + self.reflection_coefficient * reflected
ReflectingTransducer_greens_function(self, source_position, source_normal, receiver_position) ==
    The({NdArray(direct.shape,
                 [i \in 1..Len(direct.data) |->
                     Plus(Single(direct.data[i]),
                          Scaled(CInt(self.reflection_coefficient),
                                 Single(reflected.data[i])))]) :
         direct \in {greens_function(Wrapped(self), source_position, source_normal,
                                     receiver_position)},
         reflected \in {greens_function(Wrapped(self),
                                        greens_function_mirror_position(self, source_position),
                                        greens_function_mirror_normal(self, source_normal),
                                        receiver_position)}})

\* ReflectingTransducer.spatial_derivatives: for key in direct,
\* derivatives[key] = direct[key] + self.reflection_coefficient * reflected[key]
ReflectingTransducer_spatial_derivatives(self, source_position, source_normal, receiver_position, orders) ==
    The({Dict(direct.keys,
              [j \in 1..Len(direct.keys) |->
                  NdArray(direct.vals[j].shape,
                          [i \in 1..Len(direct.vals[j].data) |->
                              Plus(direct.vals[j].data[i],
                                   Scaled(CInt(self.reflection_coefficient),
                                          Lookup(reflected, direct.keys[j]).data[i]))])]) :
         direct \in {spatial_values(Wrapped(self), source_position, source_normal,
                                    receiver_position, orders)},
         reflected \in {spatial_values(Wrapped(self),
                                       spatial_derivatives_mirror_position(self, source_position),
                                       spatial_derivatives_mirror_normal(self, source_normal),
                                       receiver_position, orders)}})

(***************************************************************************)
(* The reflecting model called on its own: a plane z = 1 given by a normal *)
(* of length 2 pointing down, and a tilted plane; sources off and on the   *)
(* planes; receivers at mirror sources and elsewhere.                      *)
(***************************************************************************)
Planes ==
    {[plane_normal |-> <<0, 0, 0 - 2>>, plane_distance |-> 0 - 1],
     [plane_normal |-> <<1, 2, 2>>, plane_distance |-> 0 - 2]}

ReflectSources == {<<0 - 1, 0, 0>>, <<3, 0, 0>>, <<0, 0 - 3, 0>>}

ReflectNormals == {<<0, 0, 1>>, <<1, 2, 2>>, <<2, 0 - 1, 0>>}

ReflectionCoefficients == {0, 0 - 1}

ReflectPoints == <<(<<0 - 1, 0, 2>>), (<<1, 0 - 4, 0 - 4>>), (<<0, 2, 3>>)>>

ReflectReceivers ==
    {ArrayOfPoint(ReflectPoints[1]),
     ArrayOfPoints([i \in 1..MaxPoints |-> ReflectPoints[(i % Len(ReflectPoints)) + 1]])}

\* the tensors are requested up to the second derivatives
ReflectOrders == 0..2

\* the mirror image of v has integer coordinates
Exact(n, v, distance) ==
    \A c \in 1..3 :
        (2 * n.num[c] * (dot(v, n.num) - distance * n.den)) % (n.den * n.den) = 0

ReflectInputs ==
    {q \in [kind : ModelKinds, plane : Planes, reflection_coefficient : ReflectionCoefficients,
            source_position : ReflectSources, source_normal : ReflectNormals,
            receiver_position : ReflectReceivers, orders : ReflectOrders] :
        /\ Exact(unit_normal(q.plane.plane_normal), q.source_position, q.plane.plane_distance)
        /\ Exact(unit_normal(q.plane.plane_normal), q.source_normal, 0)}

SelfOf(q) ==
    ReflectingTransducer(q.kind, q.plane.plane_distance, q.plane.plane_normal,
                         q.reflection_coefficient)

CallReflectingGreensFunction ==
    /\ lastOp = "init"
    /\ Return("greens_function", query,
              ReflectingTransducer_greens_function(SelfOf(query), query.source_position,
                                                   query.source_normal, query.receiver_position))

CallReflectingSpatialDerivatives ==
    /\ lastOp = "init"
    /\ Return("spatial_derivatives", query,
              ReflectingTransducer_spatial_derivatives(SelfOf(query), query.source_position,
                                                       query.source_normal,
                                                       query.receiver_position, query.orders))

NextReflect ==
    \/ CallReflectingGreensFunction
    \/ CallReflectingSpatialDerivatives

SpecReflect == InitWith(ReflectInputs) /\ [][NextReflect]_vars

(***************************************************************************)
(* The mirror source.                                                      *)
(***************************************************************************)
\* den times the signed distance of x to the plane of the model
SignedDistance(self, x) ==
    dot(x, self.plane_normal.num) - self.plane_distance * self.plane_normal.den

\* den**2 times the component of x in the plane
InPlane(self, x) ==
    minus(times(self.plane_normal.den * self.plane_normal.den, x),
          times(dot(x, self.plane_normal.num), self.plane_normal.num))

\* C20: the plane normal is a unit vector; the mirror position lies at the
\* opposite signed distance from the plane with the in-plane component of the
\* source position; a source on the plane is its own mirror; the mirror of
\* the mirror is the source position and the source normal; the mirror
\* normal keeps the length and the in-plane component of the source normal
\* and its component along the plane normal is negated; greens_function and
\* spatial_derivatives compute the same mirror source.
C20_MirrorSource ==
    lastOp \in {"greens_function", "spatial_derivatives"} =>
        LET self == SelfOf(query)
            p == query.source_position
            m == query.source_normal
            mirror_position == IF lastOp = "greens_function"
                               THEN greens_function_mirror_position(self, p)
                               ELSE spatial_derivatives_mirror_position(self, p)
            mirror_normal == IF lastOp = "greens_function"
                             THEN greens_function_mirror_normal(self, m)
                             ELSE spatial_derivatives_mirror_normal(self, m)
        IN  /\ dot(self.plane_normal.num, self.plane_normal.num)
                  = self.plane_normal.den * self.plane_normal.den
            /\ SignedDistance(self, mirror_position) = 0 - SignedDistance(self, p)
            /\ InPlane(self, mirror_position) = InPlane(self, p)
            /\ SignedDistance(self, p) = 0 => mirror_position = p
            /\ greens_function_mirror_position(self, mirror_position) = p
            /\ spatial_derivatives_mirror_position(self, mirror_position) = p
            /\ dot(mirror_normal, self.plane_normal.num) = 0 - dot(m, self.plane_normal.num)
            /\ InPlane(self, mirror_normal) = InPlane(self, m)
            /\ dot(mirror_normal, mirror_normal) = dot(m, m)
            /\ greens_function_mirror_normal(self, mirror_normal) = m
            /\ spatial_derivatives_mirror_normal(self, mirror_normal) = m
            /\ greens_function_mirror_position(self, p) = spatial_derivatives_mirror_position(self, p)
            /\ greens_function_mirror_normal(self, m) = spatial_derivatives_mirror_normal(self, m)

\* a source off the tilted plane with its normal along the plane normal: the
\* mirror source lies elsewhere and points the other way
C20_Witness ==
    /\ lastOp = "greens_function"
    /\ query.plane.plane_normal = <<1, 2, 2>>
    /\ query.source_position = <<3, 0, 0>>
    /\ query.source_normal = <<1, 2, 2>>
    /\ greens_function_mirror_position(SelfOf(query), query.source_position) = <<1, 0 - 4, 0 - 4>>
    /\ greens_function_mirror_normal(SelfOf(query), query.source_normal) = <<0 - 1, 0 - 2, 0 - 2>>

(***************************************************************************)
(* Direct and reflected field.                                             *)
(***************************************************************************)
\* the mirror image of x in the plane of the query, found by its geometry:
\* the point of the line through x along the plane normal that lies at the
\* opposite signed distance from the plane
MirrorImage(q, x, distance) ==
    LET n == q.plane.plane_normal
        length == sqrt(dot(n, n))
        reach == 2 * (Abs(dot(x, n)) + Abs(distance) * length)
        line == {[c \in 1..3 |-> x[c] + (t * n[c]) \div dot(n, n)] :
                    t \in {u \in (0 - reach)..reach :
                              \A c \in 1..3 : (u * n[c]) % dot(n, n) = 0}}
    IN  CHOOSE y \in line :
            dot(y, n) - distance * length = 0 - (dot(x, n) - distance * length)

\* the wrapped model's values for the source of the query and for its mirror
DirectValue ==
    IF lastOp = "greens_function"
    THEN greens_function(ModelOf(query.kind), query.source_position, query.source_normal,
                         query.receiver_position)
    ELSE spatial_values(ModelOf(query.kind), query.source_position, query.source_normal,
                        query.receiver_position, query.orders)

MirrorValue ==
    LET position == MirrorImage(query, query.source_position, query.plane.plane_distance)
        normal == MirrorImage(query, query.source_normal, 0)
    IN  IF lastOp = "greens_function"
        THEN greens_function(ModelOf(query.kind), position, normal, query.receiver_position)
        ELSE spatial_values(ModelOf(query.kind), position, normal,
                            query.receiver_position, query.orders)

\* a value of the wrapped model as a sum of terms
AsForm(v) == IF v.fn = "sum" THEN v ELSE Single(v)

\* the entries of a result: of an array itself, of a dict its values
Entries(r) == IF r.type = "dict" THEN r.vals ELSE <<r>>

\* an entry is d + reflection_coefficient * m and, with the coefficient 0,
\* it is d: wherever the model is called, or wherever m is finite
EntryIsDirectPlusReflected(entry, d, m, wherever) ==
    /\ entry = Plus(AsForm(d), Scaled(CInt(query.reflection_coefficient), AsForm(m)))
    /\ (query.reflection_coefficient = 0 /\ (wherever = "called" \/ IsFinite(m.cls)))
          => entry = AsForm(d)

\* every entry of r is as above, under the keys of the wrapped model's tensor
IsDirectPlusReflected(r, direct, mirror, wherever) ==
    /\ r.type = direct.type
    /\ r.type = "dict" => r.keys = direct.keys
    /\ \A j \in 1..Len(Entries(r)) :
          /\ Entries(r)[j].shape = Entries(direct)[j].shape
          /\ \A i \in 1..Len(Entries(r)[j].data) :
                EntryIsDirectPlusReflected(Entries(r)[j].data[i], Entries(direct)[j].data[i],
                                           Entries(mirror)[j].data[i], wherever)

\* C12 as claimed: ... and with reflection_coefficient = 0 the result is the
\* wrapped model's result
C12_ReflectionAsClaimed ==
    lastOp \in {"greens_function", "spatial_derivatives"} =>
        IsDirectPlusReflected(result, DirectValue, MirrorValue, "called")

\* C12: greens_function and every entry of spatial_derivatives of a
\* ReflectingTransducer are the wrapped model's value for the real source
\* plus reflection_coefficient times its value for the mirror source, with
\* the key set of the wrapped model's tensor; with reflection_coefficient = 0
\* an entry is the wrapped model's entry wherever the mirror-source value is
\* finite.
C12_Reflection ==
    lastOp \in {"greens_function", "spatial_derivatives"} =>
        IsDirectPlusReflected(result, DirectValue, MirrorValue, "finite")

\* the tensor was computed with a reflection coefficient that is neither 0
\* nor 1 for a source off the plane, and an entry has a direct and a
\* reflected term
C12_Witness ==
    /\ lastOp = "spatial_derivatives"
    /\ query.reflection_coefficient = 0 - 1
    /\ query.orders = 2
    /\ query.source_position = <<3, 0, 0>>
    /\ query.plane.plane_normal = <<1, 2, 2>>
    /\ query.receiver_position.shape = <<3>>
    /\ IsFinite(Lookup(result, "xy").data[1].cls)
    /\ Lookup(result, "xy").data[1] # Lookup(DirectValue, "xy").data[1]
    /\ Lookup(result, "xy").data[1] # Zero

\* with reflection_coefficient = 0 the tensor was computed for a receiver
\* off the mirror source, and is the wrapped model's
C12_ZeroCoefficient ==
    /\ lastOp = "spatial_derivatives"
    /\ query.reflection_coefficient = 0
    /\ query.orders = 2
    /\ \A j \in 1..Len(result.vals) :
          /\ IsFinite(MirrorValue.vals[j].data[1].cls)
          /\ result.vals[j].data[1] = DirectValue.vals[j].data[1]

(***************************************************************************)
(* The four evaluators called again and again at the same positions.  The  *)
(* history keeps every request of a run of at most MaxCalls calls.         *)
(***************************************************************************)
\* the longest sequence of evaluator calls
MaxCalls == 6

\* the positions of a run: any of the inputs for the first call, the
\* positions of the first call for every later one
EvaluatorInputs ==
    SlotInputs \cup {Batch([i \in 1..MaxPoints |-> <<0, 0, 50000000>>])}

SamePositions == IF hist = <<>> THEN EvaluatorInputs ELSE {hist[1].positions}

NextEvaluators ==
    \/ Len(hist) < MaxCalls /\ pressure(SamePositions, MaxCalls)
    \/ Len(hist) < MaxCalls /\ velocity(SamePositions, MaxCalls)
    \/ Len(hist) < MaxCalls /\ force(SamePositions, MaxCalls)
    \/ Len(hist) < MaxCalls /\ stiffness(SamePositions, MaxCalls)

SpecEvaluators == Init /\ [][NextEvaluators]_vars

EvaluatorOps == {"pressure", "velocity", "force", "stiffness"}

\* the order an evaluator is claimed to request
ClaimedOrder(op) ==
    IF op = "pressure" THEN 0
    ELSE IF op = "velocity" THEN 1
    ELSE IF op = "force" THEN 2
    ELSE 3

\* C21: pressure, velocity, force and stiffness request the orders 0, 1, 2
\* and 3; in a sequence of evaluator calls at unchanged positions the stored
\* order never decreases, the aggregator is called exactly when the
\* requested order exceeds the stored order, at most 4 times in all, and
\* never after a stiffness call.
C21_OrdersOnlyGrow ==
    /\ [](/\ Cardinality({i \in 1..Len(hist) : hist[i].calls # 0}) <= 4
          /\ \A i \in 1..Len(hist) : \A j \in (i + 1)..Len(hist) :
                hist[i].orders = 3 => hist[j].calls = 0)
    /\ [][lastOp' \in EvaluatorOps =>
            LET r == Last(hist')
            IN  /\ r.orders = ClaimedOrder(lastOp')
                /\ r.positions = hist'[1].positions
                /\ _existing_orders' >= _existing_orders
                /\ r.calls = (IF r.orders > _existing_orders THEN 1 ELSE 0)]_vars

\* the four evaluators were called in the order of their orders, each
\* calling the aggregator, and the two calls after them did not
C21_Witness ==
    /\ Len(hist) = 6
    /\ \A i \in 1..4 : hist[i].orders = i - 1 /\ hist[i].calls = 1
    /\ hist[5].orders = 0 /\ hist[5].calls = 0
    /\ hist[6].orders = 3 /\ hist[6].calls = 0
    /\ _existing_orders = 3

(***************************************************************************)
(* focus_phases and signature.  Phases are integers in units of            *)
(* pi / HalfTurn; lengths are taken in units of spread / 10 (1e-3 m), for  *)
(* positions whose distances are whole in that unit, and the wavenumber is *)
(* a multiple of pi, so that k times a distance is a whole phase.          *)
(***************************************************************************)
\* np.mod(a, b) for b > 0: the remainder with the sign of the divisor
np_mod_of_dividend_sign(a, b) == IF a < 0 THEN 0 - ((0 - a) % b) ELSE a % b

np_mod(a, b) == a % b

InTenths(p) == [c \in 1..3 |-> p[c] \div (Spread \div 10)]

\* np.sum((self.transducer_positions[idx, :] - focus)**2)**0.5
focus_distance(array, focus, idx) ==
    sqrt(dot(minus(InTenths(array.transducer_positions[idx]), InTenths(focus)),
             minus(InTenths(array.transducer_positions[idx]), InTenths(focus))))

\* distance * self.k in units of pi / HalfTurn, for k = (n / d) * pi per
\* metre and a distance in 1e-3 m
times_k(distance, k) == (distance * k.n * HalfTurn) \div (k.d * 1000)

\* arrays.TransducerArray.focus_phases
focus_phases(array, focus) ==
    [idx \in 1..array.num_transducers |->
        np_mod(0 - times_k(focus_distance(array, focus, idx), array.transducer_model.k)
                   + HalfTurn,
               2 * HalfTurn) - HalfTurn]

\* models.TransducerArray.focus_phases
models_TransducerArray_focus_phases(array, focus) ==
    [idx \in 1..array.num_transducers |->
        np_mod(0 - times_k(focus_distance(array, focus, idx), array.transducer_model.k)
                   + HalfTurn,
               2 * HalfTurn) - HalfTurn]

\* arrays.TransducerArray.signature; ph is the argument phases
signature(array, focus, ph) ==
    LET given == IF ph = None THEN array.phases ELSE ph
        focused == focus_phases(array, focus)
    IN  [idx \in 1..array.num_transducers |->
            np_mod(given[idx] - focused[idx] + HalfTurn, 2 * HalfTurn) - HalfTurn]

\* wavenumbers: whole multiples of (1000 / HalfTurn) * pi per metre, a phase
\* of pi / HalfTurn per 1e-3 m
FocusWavenumbers == {Q(1000 * j, HalfTurn, 1) : j \in 1..MaxNum}

\* focus points at whole distances from every transducer: on the array, at
\* a transducer, above the array
FocusPoints ==
    {f \in {[c \in 1..3 |-> (Spread \div 10) * p[c]] :
                p \in {<<x, y, z>> : x \in {0, 5, 10}, y \in {0, 12}, z \in {0, 24}}} :
        \A idx \in 1..MaxTransducers :
            LET diff == minus(InTenths(grid_generator(MaxTransducers).positions[idx]),
                              InTenths(f))
            IN  \E r \in 0..dot(diff, diff) : r * r = dot(diff, diff)}

\* phases inside and outside the interval from -pi to pi
FocusPhaseValues == <<0 - HalfTurn, 0, 1, HalfTurn, HalfTurn + 1, 0 - (3 * HalfTurn) - 1>>

FocusPhases == {Cycle(FocusPhaseValues, MaxTransducers, j) : j \in 1..Len(FocusPhaseValues)}

FocusInputs == [k : FocusWavenumbers, focus : FocusPoints, ph : FocusPhases]

\* the array with array.k = q.k and array.phases = q.ph assigned
FocusArray(q) ==
    ArrayOf(MaxTransducers, [kind |-> "TransducerModel", k |-> q.k, p0 |-> P0],
            q.ph, [i \in 1..MaxTransducers |-> 1])

CallFocusPhases ==
    /\ lastOp = "init"
    /\ Return("focus_phases", query, focus_phases(FocusArray(query), query.focus))

CallLegacyFocusPhases ==
    /\ lastOp = "init"
    /\ Return("models.TransducerArray.focus_phases", query,
              models_TransducerArray_focus_phases(FocusArray(query), query.focus))

\* signature(focus): of the phases of the array
CallSignature ==
    /\ lastOp = "init"
    /\ Return("signature", query, signature(FocusArray(query), query.focus, None))

\* signature(focus, phases): of given phases, the array holding others
CallSignatureOf ==
    /\ lastOp = "init"
    /\ \E other \in FocusPhases :
          Return("signature_of", [query EXCEPT !.ph = other],
                 signature(FocusArray(query), query.focus, other))

\* signature(focus, focus_phases(focus))
CallSignatureOfFocusPhases ==
    /\ lastOp = "init"
    /\ Return("signature_of_focus_phases", query,
              signature(FocusArray(query), query.focus,
                        focus_phases(FocusArray(query), query.focus)))

NextFocus ==
    \/ CallFocusPhases
    \/ CallLegacyFocusPhases
    \/ CallSignature
    \/ CallSignatureOf
    \/ CallSignatureOfFocusPhases

SpecFocus == InitWith(FocusInputs) /\ [][NextFocus]_vars

\* a and b differ by a whole number of turns
Congruent(a, b) == (a - b) % (2 * HalfTurn) = 0

\* -k * |position - focus| of a transducer, from the geometry of the grid:
\* the transducers lie on the x axis, spread apart
MinusKDistance(q, idx) ==
    LET x == ((2 * idx - MaxTransducers - 1) * (Spread \div 2) - q.focus[1]) \div (Spread \div 10)
        y == q.focus[2] \div (Spread \div 10)
        z == q.focus[3] \div (Spread \div 10)
        distance == CHOOSE r \in 0..(x * x + y * y + z * z) : r * r = x * x + y * y + z * z
    IN  0 - ((q.k.n * distance * HalfTurn) \div (q.k.d * 1000))

\* C22: focus_phases(focus) and signature(focus, phases) return for every
\* transducer a value between -pi and pi that is congruent modulo 2 pi to
\* -k * |position - focus| and to phases - focus_phases; the signature of
\* the focus phases is 0 for every transducer.
C22_WrappedPhases ==
    \A idx \in 1..MaxTransducers :
        /\ lastOp \in {"focus_phases", "models.TransducerArray.focus_phases"} =>
              /\ 0 - HalfTurn <= result[idx] /\ result[idx] <= HalfTurn
              /\ Congruent(result[idx], MinusKDistance(query, idx))
        /\ lastOp \in {"signature", "signature_of"} =>
              /\ 0 - HalfTurn <= result[idx] /\ result[idx] <= HalfTurn
              /\ \E wrapped \in (0 - HalfTurn)..HalfTurn :
                    /\ Congruent(wrapped, MinusKDistance(query, idx))
                    /\ Congruent(result[idx], query.ph[idx] - wrapped)
        /\ lastOp = "signature_of_focus_phases" => result[idx] = 0

\* a transducer 13e-3 m from the focus: -k * distance is 13 phase units
\* below zero, beyond -pi, and the focus phase is the wrapped value; the
\* signature of phases beyond pi was computed too
C22_Witness ==
    /\ lastOp = "focus_phases"
    /\ query.k = Q(1000, HalfTurn, 1)
    /\ MinusKDistance(query, 1) < 0 - HalfTurn
    /\ result[1] # MinusKDistance(query, 1)
    /\ result[1] \in (0 - HalfTurn)..HalfTurn

(***************************************************************************)
(* The cached evaluator of an array whose model parameters are assigned    *)
(* between the requests.                                                   *)
(***************************************************************************)
\* the values assigned to k, omega, freq or wavelength
RetunedValues == {Q(1, 1, 0), Q(MaxNum, 1, 1)}

\* array.k = value, ...
Retune == \E attr \in ParamNames, value \in RetunedValues : Assign("array", attr, value)

\* array.transducer_model.k = value, ...
RetuneModel == \E attr \in ParamNames, value \in RetunedValues : Assign("model", attr, value)

NextRetuned ==
    \/ CallSpatialDerivatives(SlotInputs, 1)
    \/ pressure(SlotInputs, 1)
    \/ stiffness(SlotInputs, 1)
    \/ Retune
    \/ RetuneModel

SpecRetuned == Init /\ [][NextRetuned]_vars

\* C23: the tensor a cached request returns is the one the aggregator
\* computes for the array as it is at the time of the call, at the stored
\* positions and order, also after k, omega, freq or wavelength were
\* assigned.
C23_TensorOfCurrentParameters ==
    (lastOp \in RequestOps /\ returned = StoredTensor) =>
        _spatial_derivatives
            = TransducerArray_spatial_derivatives(TheArray, _last_positions, _existing_orders)

\* a request was served from the cache after an assignment that changed k
C23_StaleTensor ==
    /\ lastOp \in RequestOps
    /\ Last(hist).calls = 0
    /\ assigned # None
    /\ _spatial_derivatives
           # TransducerArray_spatial_derivatives(TheArray, _last_positions, _existing_orders)

(***************************************************************************)
(* The positions a tensor was computed at, read from its entries.          *)
(***************************************************************************)
ComputedAt(tensor) == tensor.data[1][1].at[4]

\* C24: every tensor a cached request returns was computed by the
\* aggregator at positions of the shape of the requested positions and
\* within the tolerance of np.allclose of them.
C24_ComputedNearby ==
    (lastOp \in RequestOps /\ returned = StoredTensor) =>
        Matches(Last(hist).positions, ComputedAt(_spatial_derivatives))

\* the same, as long as the caller has not written into the array it passed
C24_ComputedNearbyUntouched ==
    (lastOp \in RequestOps /\ returned = StoredTensor
        /\ _last_positions = ComputedAt(_spatial_derivatives)) =>
        Matches(Last(hist).positions, ComputedAt(_spatial_derivatives))

\* C25: when the caller has written into the positions array of the last
\* computed request, moving it beyond the tolerance from the positions of the
\* computation, and requests again with that array, the aggregator is called
\* and the tensor of the written positions is stored.
C25_InPlaceChangeDetected ==
    [][(/\ lastOp = "mutate"
        /\ lastOp' \in RequestOps
        /\ Last(hist').positions = _last_positions
        /\ ~Matches(_last_positions, ComputedAt(_spatial_derivatives)))
       => /\ Last(hist').calls = 1
          /\ ComputedAt(_spatial_derivatives') = Last(hist').positions]_vars

\* the array was written into, requested again, and the tensor computed
\* before served
C25_ServedAfterInPlaceChange ==
    /\ lastOp \in RequestOps
    /\ Last(hist).calls = 0
    /\ Last(hist).positions = _last_positions
    /\ ~Matches(_last_positions, ComputedAt(_spatial_derivatives))

\* a request step leaves the three fields as they are, or replaces the three
\* with the tensor, the order and the positions of the request
FieldsChangeTogether ==
    lastOp' \in RequestOps =>
        LET r == Last(hist')
        IN  IF r.calls = 0
            THEN UNCHANGED cacheVars
            ELSE /\ _spatial_derivatives'
                       = TransducerArray_spatial_derivatives(TheArray, r.positions, r.orders)
                 /\ _existing_orders' = r.orders
                 /\ _last_positions' = r.positions

\* nothing is stored at first; a tensor is stored exactly when an order and
\* positions are
FieldsSetTogether ==
    /\ lastOp = "init" => (_spatial_derivatives = None /\ _existing_orders = 0 - 1)
    /\ (_spatial_derivatives # None) <=> (_existing_orders >= 0)
    /\ (_spatial_derivatives # None) <=> (_last_positions # None)

\* C26: the three cache fields change only together: nothing is stored at
\* first, a hit leaves the three unchanged, a miss replaces the three, a
\* tensor is stored exactly when an order >= 0 and positions are, and the
\* stored tensor is the one computed at the stored positions with the stored
\* order.
C26_FieldsTogether ==
    /\ [][FieldsChangeTogether]_vars
    /\ [](/\ FieldsSetTogether
          /\ _spatial_derivatives # None =>
                _spatial_derivatives
                    = TransducerArray_spatial_derivatives(TheArray, _last_positions,
                                                          _existing_orders))

\* the same, the stored positions taken as they were when the tensor was
\* computed
C26_FieldsTogetherAsComputed ==
    /\ [][FieldsChangeTogether]_vars
    /\ [](/\ FieldsSetTogether
          /\ _spatial_derivatives # None =>
                _spatial_derivatives
                    = TransducerArray_spatial_derivatives(TheArray,
                                                          ComputedAt(_spatial_derivatives),
                                                          _existing_orders))

(***************************************************************************)
(* The cached evaluator asked for positions the aggregator cannot compute: *)
(* an array of two coordinates, which does not broadcast against a source  *)
(* position.                                                               *)
(***************************************************************************)
FailingPositions == NdArray(<<2>>, <<0, 50000000>>)

FailingInputs == SlotInputs \cup {FailingPositions}

NextFailing ==
    \/ CallSpatialDerivatives(FailingInputs, 1)
    \/ pressure(FailingInputs, 1)
    \/ velocity(FailingInputs, 1)
    \/ force(FailingInputs, 1)
    \/ stiffness(FailingInputs, 1)

SpecFailing == Init /\ [][NextFailing]_vars

\* C27: a request in which the aggregator raises leaves the stored tensor,
\* order and positions as they were; the request after it is served from the
\* cache if it matches the entry stored before, and is computed again, and
\* fails again, if it is for the failed positions.
C27_FailedMissKeepsEntry ==
    /\ [][(lastOp' \in RequestOps /\ raised' # NoException) =>
            /\ Last(hist').calls = 1
            /\ returned' = Nothing
            /\ UNCHANGED cacheVars]_vars
    /\ [][(lastOp \in RequestOps /\ raised # NoException /\ lastOp' \in RequestOps) =>
            LET r == Last(hist')
            IN  /\ (/\ _spatial_derivatives # None
                    /\ _existing_orders >= r.orders
                    /\ Matches(r.positions, _last_positions))
                      => (r.calls = 0 /\ returned' = StoredTensor /\ UNCHANGED cacheVars)
                /\ r.positions = Last(hist).positions
                      => (r.calls = 1 /\ raised' # NoException)]_vars

\* the aggregator raised while a tensor was stored, and the next request,
\* for the stored positions, was served from the cache
C27_Witness ==
    /\ lastOp \in RequestOps
    /\ raised # NoException
    /\ Last(hist).positions = FailingPositions
    /\ _spatial_derivatives # None
    /\ _existing_orders = 3
    /\ _last_positions \in SlotInputs

(***************************************************************************)
(* The tensor of one source computed with every order, by a model and by   *)
(* the reflecting model that wraps it.                                     *)
(***************************************************************************)
OrdersInputs ==
    {q \in [kind : ModelKinds, plane : Planes, reflection_coefficient : {0 - 1},
            source_position : {<<3, 0, 0>>}, source_normal : ReflectNormals,
            receiver_position : ReflectReceivers, orders : Orders] :
        /\ Exact(unit_normal(q.plane.plane_normal), q.source_position, q.plane.plane_distance)
        /\ Exact(unit_normal(q.plane.plane_normal), q.source_normal, 0)}

\* TransducerModel.spatial_derivatives, of the base model, the piston or
\* the ring
CallModelSpatialDerivatives ==
    /\ lastOp = "init"
    /\ Return("TransducerModel.spatial_derivatives", query,
              spatial_values(ModelOf(query.kind), query.source_position, query.source_normal,
                             query.receiver_position, query.orders))

CallReflectingModelSpatialDerivatives ==
    /\ lastOp = "init"
    /\ Return("ReflectingTransducer.spatial_derivatives", query,
              ReflectingTransducer_spatial_derivatives(SelfOf(query), query.source_position,
                                                       query.source_normal,
                                                       query.receiver_position, query.orders))

NextOrders ==
    \/ CallModelSpatialDerivatives
    \/ CallReflectingModelSpatialDerivatives

SpecOrders == InitWith(OrdersInputs) /\ [][NextOrders]_vars

\* the tensor of the query computed with a lower order
WithOrders(m) ==
    IF lastOp = "TransducerModel.spatial_derivatives"
    THEN spatial_values(ModelOf(query.kind), query.source_position, query.source_normal,
                        query.receiver_position, m)
    ELSE ReflectingTransducer_spatial_derivatives(SelfOf(query), query.source_position,
                                                  query.source_normal,
                                                  query.receiver_position, m)

\* the entries of the tensor low under the keys of low are those of high
SameLowerEntries(low, high) ==
    \A j \in 1..Len(low.keys) :
        /\ HasKey(high, low.keys[j])
        /\ Lookup(high, low.keys[j]) = low.vals[j]

\* C28: for the base model, the piston, the ring and the reflecting model,
\* and all m <= n in 0..3, every entry of order <= m of the tensor computed
\* with orders = n is the same entry of the tensor computed with orders = m.
C28_LowerOrdersUnchanged ==
    lastOp \in {"TransducerModel.spatial_derivatives",
                "ReflectingTransducer.spatial_derivatives"} =>
        \A m \in 0..query.orders : SameLowerEntries(WithOrders(m), result)

\* the reflecting ring's tensor was computed with the third derivatives and
\* holds the entries of the tensor without them, and more
C28_Witness ==
    /\ lastOp = "ReflectingTransducer.spatial_derivatives"
    /\ query.kind = "CircularRing"
    /\ query.orders = 3
    /\ Len(result.keys) > Len(WithOrders(2).keys)
    /\ Lookup(result, "xy") = Lookup(WithOrders(2), "xy")
    /\ Lookup(result, "xy").data[1] # Zero

(***************************************************************************)
(* The evaluators with their results.  An evaluator builds the cost        *)
(* function of its name on the tensor of the cached request and calls it   *)
(* with the phases and amplitudes of the array; the value of the cost      *)
(* function is kept as the function and the arguments it was called with.  *)
(***************************************************************************)
\* variant: the cost function called with the control state of the array as
\* constructed
cost_function_value_as_constructed(name, tensor, ph, am) ==
    [fn |-> name, spatial_derivatives |-> tensor,
     phases |-> [i \in 1..Len(ph) |-> 0], amplitudes |-> [i \in 1..Len(am) |-> 1]]

\* cost_functions.<name>(array, spatial_derivatives=tensor)(ph, am)
cost_function_value(name, tensor, ph, am) ==
    [fn |-> name, spatial_derivatives |-> tensor, phases |-> ph, amplitudes |-> am]

\* the positions and the control state of the evaluator call before
PreviousCall ==
    IF result = None
    THEN None
    ELSE [type |-> "call", positions |-> query.positions,
          phases |-> result.phases, amplitudes |-> result.amplitudes]

\* one evaluator: the cached request, then the cost function
field_evaluator(op, name, orders, inputs) ==
    \E v \in inputs :
        /\ cached_request(op, v, orders, 1)
        /\ query' = [positions |-> v, previous |-> PreviousCall]
        /\ result' = cost_function_value(name, _spatial_derivatives', phases, amplitudes)
        /\ UNCHANGED <<arrayVars, modelVars, assigned, arg, readback>>

PressureField == field_evaluator("pressure", "pressure", 0, SlotInputs)

VelocityField == field_evaluator("velocity", "velocity", 1, SlotInputs)

ForceField == field_evaluator("force", "second_order_force", 2, SlotInputs)

StiffnessField == field_evaluator("stiffness", "second_order_stiffness", 3, SlotInputs)

\* array.phases = value and array.amplitudes = value, arrays of the length
\* of the array
ChangePhases ==
    \E j \in 1..2 :
        Control("phases=", Assignment("phases", RealArray(Cycle(PhaseValues, num_transducers, j))),
                Cycle(PhaseValues, num_transducers, j), amplitudes, NoException, None)

ChangeAmplitudes ==
    \E j \in 2..3 :
        Control("amplitudes=",
                Assignment("amplitudes", RealArray(Cycle(AmplitudeValues, num_transducers, j))),
                phases, Cycle(AmplitudeValues, num_transducers, j), NoException, None)

NextWeighted ==
    \/ PressureField
    \/ VelocityField
    \/ ForceField
    \/ StiffnessField
    \/ ChangePhases
    \/ ChangeAmplitudes

SpecWeighted == Init /\ [][NextWeighted]_vars

\* the cost function an evaluator is claimed to call
ClaimedCostFunction(op) ==
    IF op = "pressure" THEN "pressure"
    ELSE IF op = "velocity" THEN "velocity"
    ELSE IF op = "force" THEN "second_order_force"
    ELSE "second_order_stiffness"

\* C29: an assignment of phases or amplitudes leaves the cache fields as they
\* are; an evaluator returns its cost function of the tensor of the cached
\* request called with the phases and amplitudes of the array at the call;
\* an evaluator call at the positions of the evaluator call before it, of an
\* order not above the stored one, does not call the aggregator, whatever
\* was assigned in between.
C29_CurrentControlState ==
    /\ [][lastOp' \in {"phases=", "amplitudes="} => UNCHANGED cacheVars]_vars
    /\ [][lastOp' \in EvaluatorOps =>
            /\ result'.fn = ClaimedCostFunction(lastOp')
            /\ result'.spatial_derivatives = _spatial_derivatives'
            /\ result'.phases = phases'
            /\ result'.amplitudes = amplitudes'
            /\ UNCHANGED <<phases, amplitudes>>
            /\ (/\ query'.previous # None
                /\ query'.previous.positions = query'.positions
                /\ Last(hist').orders <= _existing_orders)
                  => (Last(hist').calls = 0 /\ UNCHANGED cacheVars)]_vars

\* the pressure was evaluated twice at the same positions with other phases
\* and amplitudes the second time: the second call did not call the
\* aggregator and its value is that of the new phases and amplitudes
C29_Witness ==
    /\ lastOp = "pressure"
    /\ query.previous # None
    /\ query.previous.positions = query.positions
    /\ query.previous.phases # phases
    /\ query.previous.amplitudes # amplitudes
    /\ Last(hist).calls = 0
    /\ result.phases = phases
    /\ result.amplitudes = amplitudes

(***************************************************************************)
(* update_air_properties: the module global c_air is rebound to            *)
(* (gamma * R_spec * (temperature + 273.15))**0.5.  A temperature is given *)
(* by the number gamma * R_spec * (temperature + 273.15), for temperatures *)
(* where it is the square of a whole speed.                                *)
(***************************************************************************)
update_air_properties(temperature) ==
    IF temperature = None
    THEN c_air
    ELSE QInt(sqrt(temperature.gamma_R_kelvin))

\* the temperatures of the sound speeds 340 and 346 m/s, about 14.5 and
\* 24.7 degrees
Temperatures == {[type |-> "float", gamma_R_kelvin |-> c * c] : c \in {340, 346}}

UpdateAirProperties ==
    /\ \E temperature \in Temperatures \cup {None} :
          c_air' = update_air_properties(temperature)
    /\ lastOp' = "update_air_properties"
    /\ readback' = None
    /\ raised' = NoException
    /\ UNCHANGED <<_k, _omega, arrayVars, cacheVars, cacheHist, assigned, arg, evalHist>>

NextAir ==
    \/ UpdateAirProperties
    \/ RetuneModel
    \/ ReadParameters

SpecAir == Init /\ [][NextAir]_vars

\* C30: after any interleaving of update_air_properties with assignments to
\* k, omega, freq and wavelength, the model satisfies omega = k * c_air for
\* the current c_air, freq = omega / (2 pi) and wavelength = 2 pi / k.
C30_ConsistentWithCurrentAir ==
    /\ _omega = QMul(_k, c_air)
    /\ lastOp = "read_parameters" =>
          /\ readback.omega = QMul(readback.k, c_air)
          /\ readback.freq = QDiv(readback.omega, QMul(QInt(2), QPi))
          /\ readback.wavelength = QDiv(QMul(QInt(2), QPi), readback.k)

\* the same between an assignment and the next change of c_air
C30_ConsistentSinceAssignment ==
    lastOp \in {"init", "assign"} => _omega = QMul(_k, c_air)

====
